---- MODULE Spec2Model ----
(***************************************************************************)
(* A model of the patina MQTT v5 broker: the ClientHandler registry        *)
(* (socket <-> client id), the session store, the topic registry, the      *)
(* packet dispatcher with its per-packet-type handlers and the Tx stage    *)
(* that consumes the dispatcher's outbound queue.                          *)
(*                                                                         *)
(* Option<T> and Result<T, _> values are sets of at most one element:      *)
(* {} is None / Err, {x} is Some(x) / Ok(x).  A DashMap is a function      *)
(* whose DOMAIN is the set of keys present.                                *)
(***************************************************************************)
EXTENDS Integers, Sequences, FiniteSets, TLC

\* ------------------------------------------------------------ bounds
Sockets == {"s1", "s2"}
ClientIds == {"c1", "c2"}
Tasks == {"t1", "t2"}

VARIABLES
    socket2id,          \* ClientHandler.socket2id : SocketAddr -> client id
    id2socket,          \* ClientHandler.id2socket : client id -> SocketAddr
    id2session,         \* utils.rs id2session : client id -> SessionHandler
    topic2subscribers,  \* TopicHandler : topic filter -> subscriber client ids
    broker2listener,    \* the dispatcher-to-Tx queue of (recipients, packet)
    stream_repository,  \* the sockets whose write half the stream map holds
    handled,            \* the packet whose handling the last step completed
    call,               \* the last completed ClientHandler call and its result
    task,               \* per concurrent task: the ClientHandler call in progress
    listener2broker,    \* the Rx-to-dispatcher queue of (socket, packet)
    rx                  \* per socket: the position of its handle_client loop

brokerVars == <<id2session, topic2subscribers, broker2listener, stream_repository,
                handled, listener2broker, rx>>

vars == <<socket2id, id2socket, id2session, topic2subscribers, broker2listener,
          stream_repository, handled, call, task, listener2broker, rx>>

\* ------------------------------------------------------------ maps
EmptyMap == << >>

Insert(m, k, v) == [x \in (DOMAIN m) \cup {k} |-> IF x = k THEN v ELSE m[x]]

Remove(m, k) == [x \in (DOMAIN m) \ {k} |-> m[x]]

Lookup(m, k) == IF k \in DOMAIN m THEN {m[k]} ELSE {}

\* ------------------------------------------------------------ ClientHandler
get_client_id(socket) == Lookup(socket2id, socket)

get_socket(client_id) == Lookup(id2socket, client_id)

\* register, line 52: socket2id.insert(socket, client_id)
register_socket2id(s2i, socket, client_id) == Insert(s2i, socket, client_id)

\* A register that keeps an existing id2socket entry instead of replacing it.
register_id2socket_keep(i2s, socket, client_id) ==
    IF client_id \in DOMAIN i2s THEN i2s
    ELSE Insert(i2s, client_id, socket)

\* register, line 61: id2socket.insert(client_id, socket)
register_id2socket(i2s, socket, client_id) == Insert(i2s, client_id, socket)

\* register, lines 61-71: the value id2socket.insert returns
register_previous_socket(i2s, client_id) == Lookup(i2s, client_id)

\* unregister, line 76: socket2id.remove(socket)
unregister_socket2id(s2i, socket) == Remove(s2i, socket)

\* a variant of unregister_id2socket that leaves the id's binding in place
unregister_id2socket_keep(i2s, client_id) == i2s

\* unregister, line 85, and unregister_by_socket, line 99:
\* id2socket.remove(client_id)
unregister_id2socket(i2s, client_id) == Remove(i2s, client_id)

\* An unregister_by_socket that forgets the id2socket direction.
unregister_by_socket_id2socket_forget(s2i, i2s, socket) == i2s

\* unregister_by_socket, lines 97-109: id2socket.remove(get_client_id(socket))
unregister_by_socket_id2socket(s2i, i2s, socket) ==
    IF Lookup(s2i, socket) = {}
    THEN i2s
    ELSE Remove(i2s, s2i[socket])

\* unregister_by_socket, lines 110-119: socket2id.remove(socket) and its result
unregister_by_socket_socket2id(s2i, socket) == Remove(s2i, socket)

unregister_by_socket_result(s2i, socket) == Lookup(s2i, socket)

NoCall == [op |-> "none", socket |-> "none", client_id |-> "none", ret |-> {}]

NoTask == [pc |-> "idle", op |-> "none", socket |-> "none", client_id |-> "none"]

NoPacketHandled ==
    [socket |-> "none", packet |-> [packet_type |-> "none"], client_id |-> {},
     result |-> "none", sent |-> << >>]

\* The state after construction: empty registries, queue and stream map.
Init ==
    /\ socket2id = EmptyMap
    /\ id2socket = EmptyMap
    /\ id2session = EmptyMap
    /\ topic2subscribers = EmptyMap
    /\ broker2listener = << >>
    /\ stream_repository = {}
    /\ handled = NoPacketHandled
    /\ call = NoCall
    /\ task = [t \in Tasks |-> NoTask]
    /\ listener2broker = << >>
    /\ rx = [socket \in Sockets |-> "none"]

InitClientHandler == Init

\* One whole call of ClientHandler::register.
register(socket, client_id) ==
    /\ socket2id' = register_socket2id(socket2id, socket, client_id)
    /\ id2socket' = register_id2socket(id2socket, socket, client_id)
    /\ call' = [op |-> "register", socket |-> socket, client_id |-> client_id,
                ret |-> register_previous_socket(id2socket, client_id)]
    /\ UNCHANGED <<task, brokerVars>>

\* One whole call of ClientHandler::unregister, with the client id the caller
\* has just looked up for the socket (DisconnectHandler::process).
unregister(socket, client_id) ==
    /\ get_client_id(socket) = {client_id}
    /\ socket2id' = unregister_socket2id(socket2id, socket)
    /\ id2socket' = unregister_id2socket(id2socket, client_id)
    /\ call' = [op |-> "unregister", socket |-> socket, client_id |-> client_id,
                ret |-> {}]
    /\ UNCHANGED <<task, brokerVars>>

\* One whole call of ClientHandler::unregister_by_socket.
unregister_by_socket(socket) ==
    /\ socket2id' = unregister_by_socket_socket2id(socket2id, socket)
    /\ id2socket' = unregister_by_socket_id2socket(socket2id, id2socket, socket)
    /\ call' = [op |-> "unregister_by_socket", socket |-> socket,
                client_id |-> IF get_client_id(socket) = {} THEN "none"
                              ELSE socket2id[socket],
                ret |-> unregister_by_socket_result(socket2id, socket)]
    /\ UNCHANGED <<task, brokerVars>>

NextClientHandler ==
    \/ \E s \in Sockets, c \in ClientIds : register(s, c)
    \/ \E s \in Sockets, c \in ClientIds : unregister(s, c)
    \/ \E s \in Sockets : unregister_by_socket(s)

SpecClientHandler == InitClientHandler /\ [][NextClientHandler]_vars

\* ------------------------------------------------ ClientHandler, step by step
\* The same calls as they run on the multi-threaded runtime: each DashMap
\* operation is one step, and the calls of different tasks interleave.
\* (register's lines 49-51 only read socket2id to log a warning.)
StartRegister(t, socket, client_id) ==
    /\ task[t].pc = "idle"
    /\ socket2id' = register_socket2id(socket2id, socket, client_id)
    /\ task' = [task EXCEPT ![t] = [pc |-> "register_id2socket", op |-> "register",
                                    socket |-> socket, client_id |-> client_id]]
    /\ UNCHANGED <<id2socket, call, brokerVars>>

FinishRegister(t) ==
    /\ task[t].pc = "register_id2socket"
    /\ id2socket' = register_id2socket(id2socket, task[t].socket, task[t].client_id)
    /\ call' = [op |-> "register", socket |-> task[t].socket,
                client_id |-> task[t].client_id,
                ret |-> register_previous_socket(id2socket, task[t].client_id)]
    /\ task' = [task EXCEPT ![t] = NoTask]
    /\ UNCHANGED <<socket2id, brokerVars>>

StartUnregister(t, socket, client_id) ==
    /\ task[t].pc = "idle"
    /\ get_client_id(socket) = {client_id}
    /\ socket2id' = unregister_socket2id(socket2id, socket)
    /\ task' = [task EXCEPT ![t] = [pc |-> "unregister_id2socket", op |-> "unregister",
                                    socket |-> socket, client_id |-> client_id]]
    /\ UNCHANGED <<id2socket, call, brokerVars>>

FinishUnregister(t) ==
    /\ task[t].pc = "unregister_id2socket"
    /\ id2socket' = unregister_id2socket(id2socket, task[t].client_id)
    /\ call' = [op |-> "unregister", socket |-> task[t].socket,
                client_id |-> task[t].client_id, ret |-> {}]
    /\ task' = [task EXCEPT ![t] = NoTask]
    /\ UNCHANGED <<socket2id, brokerVars>>

\* unregister_by_socket, line 97: get_client_id(socket) reads socket2id.
StartUnregisterBySocket(t, socket) ==
    /\ task[t].pc = "idle"
    /\ task' = [task EXCEPT ![t] = [pc |-> IF get_client_id(socket) = {}
                                            THEN "unregister_by_socket_socket2id"
                                            ELSE "unregister_by_socket_id2socket",
                                    op |-> "unregister_by_socket", socket |-> socket,
                                    client_id |-> IF get_client_id(socket) = {}
                                                  THEN "none" ELSE socket2id[socket]]]
    /\ UNCHANGED <<socket2id, id2socket, call, brokerVars>>

\* unregister_by_socket, line 99: id2socket.remove(client_id).
StepUnregisterBySocket(t) ==
    /\ task[t].pc = "unregister_by_socket_id2socket"
    /\ id2socket' = unregister_id2socket(id2socket, task[t].client_id)
    /\ task' = [task EXCEPT ![t].pc = "unregister_by_socket_socket2id"]
    /\ UNCHANGED <<socket2id, call, brokerVars>>

FinishUnregisterBySocket(t) ==
    /\ task[t].pc = "unregister_by_socket_socket2id"
    /\ socket2id' = unregister_by_socket_socket2id(socket2id, task[t].socket)
    /\ call' = [op |-> "unregister_by_socket", socket |-> task[t].socket,
                client_id |-> task[t].client_id,
                ret |-> unregister_by_socket_result(socket2id, task[t].socket)]
    /\ task' = [task EXCEPT ![t] = NoTask]
    /\ UNCHANGED <<id2socket, brokerVars>>

NextClientHandlerConc ==
    \/ \E t \in Tasks, s \in Sockets, c \in ClientIds : StartRegister(t, s, c)
    \/ \E t \in Tasks : FinishRegister(t)
    \/ \E t \in Tasks, s \in Sockets, c \in ClientIds : StartUnregister(t, s, c)
    \/ \E t \in Tasks : FinishUnregister(t)
    \/ \E t \in Tasks, s \in Sockets : StartUnregisterBySocket(t, s)
    \/ \E t \in Tasks : StepUnregisterBySocket(t)
    \/ \E t \in Tasks : FinishUnregisterBySocket(t)

SpecClientHandlerConc == InitClientHandler /\ [][NextClientHandlerConc]_vars

\* ------------------------------------------------------------ packets
Topics == {"t1"}
PacketIds == {42}
QoSLevels == {"AtMostOnce", "AtLeastOnce", "ExactlyOnce"}
GeneratedIds == {"g1"}

\* The dispatcher takes the next packet only while fewer than MaxBacklog
\* messages wait on the dispatcher-to-Tx queue (main.rs creates the channel
\* with room for 1000).
MaxBacklog == 1
\* Longest QoS 0 log a session holds in the model.
MaxLog == 1
\* Most topic filters one SUBSCRIBE lists in the model.
MaxFilters == 1

the(S) == CHOOSE x \in S : TRUE

\* ControlPacket constructors for the packets the broker originates.
connack(session_present) ==
    [packet_type |-> "CONNACK", session_present |-> session_present,
     reason_code |-> "Success"]

puback(packet_identifier) ==
    [packet_type |-> "PUBACK", packet_identifier |-> packet_identifier,
     reason_code |-> "Success"]

pubrec(packet_identifier) ==
    [packet_type |-> "PUBREC", packet_identifier |-> packet_identifier,
     reason_code |-> "Success"]

suback(packet_identifier, reason_codes) ==
    [packet_type |-> "SUBACK", packet_identifier |-> packet_identifier,
     reason_codes |-> reason_codes]

disconnect(reason_code) ==
    [packet_type |-> "DISCONNECT", reason_code |-> reason_code]

\* The decoded packets a client can send.  A CONNECT may carry an empty
\* client id; a PUBLISH carries a packet identifier iff its QoS is not 0.
ConnectPackets ==
    [packet_type : {"CONNECT"}, client_id : ClientIds \cup {""},
     clean_start_flag : BOOLEAN]

PublishPackets ==
    {[packet_type |-> "PUBLISH", qos_level |-> q,
      packet_identifier |-> IF q = "AtMostOnce" THEN {} ELSE {i},
      topic_name |-> tn] : q \in QoSLevels, i \in PacketIds, tn \in Topics}

\* topic.rs TopicFilter: the filter and the maximum QoS asked for.
TopicFilter(topic_filter, maximum_qos) ==
    [topic_filter |-> topic_filter, maximum_qos |-> maximum_qos]

FilterLists ==
    UNION {[1..n -> {TopicFilter(tf, "AtMostOnce") : tf \in Topics}] :
              n \in 1..MaxFilters}

SubscribePackets ==
    [packet_type : {"SUBSCRIBE"}, packet_identifier : {{i} : i \in PacketIds},
     topic_filters : FilterLists]

DisconnectPackets ==
    [packet_type : {"DISCONNECT"}, reason_code : {"NormalDisconnection"}]

has_client_id(control_packet) == control_packet.client_id # ""

\* utils.rs send_packet / send_packets: the message put on the queue.
send_packets(sockets, control_packet) ==
    [sockets |-> sockets, packet |-> control_packet]

send_packet(socket, control_packet) == send_packets(<<socket>>, control_packet)

\* ------------------------------------------------------------ SessionHandler
SessionHandler_new ==
    [client2pub_qos0_packets |-> EmptyMap,
     client2pub_qos1_packets |-> EmptyMap,
     client2pub_qos2_packets |-> EmptyMap,
     client2puback |-> EmptyMap,
     client2pubrel |-> EmptyMap,
     client2pubrec |-> EmptyMap]

\* register_publish with a QoS 0 packet put at the front of the log.
register_publish_front(session, client_id, packet) ==
    CASE packet.qos_level = "AtMostOnce" ->
           [session EXCEPT !.client2pub_qos0_packets =
                IF client_id \in DOMAIN @
                THEN [@ EXCEPT ![client_id] = <<packet>> \o @]
                ELSE Insert(@, client_id, <<packet>>)]
      [] packet.qos_level = "AtLeastOnce" ->
           [session EXCEPT !.client2pub_qos1_packets =
                Insert(@, <<client_id, the(packet.packet_identifier)>>, packet)]
      [] packet.qos_level = "ExactlyOnce" ->
           [session EXCEPT !.client2pub_qos2_packets =
                Insert(@, <<client_id, the(packet.packet_identifier)>>, packet)]

\* session_handler.rs lines 27-52.
register_publish(session, client_id, packet) ==
    CASE packet.qos_level = "AtMostOnce" ->
           [session EXCEPT !.client2pub_qos0_packets =
                IF client_id \in DOMAIN @
                THEN [@ EXCEPT ![client_id] = Append(@, packet)]
                ELSE Insert(@, client_id, <<packet>>)]
      [] packet.qos_level = "AtLeastOnce" ->
           [session EXCEPT !.client2pub_qos1_packets =
                Insert(@, <<client_id, the(packet.packet_identifier)>>, packet)]
      [] packet.qos_level = "ExactlyOnce" ->
           [session EXCEPT !.client2pub_qos2_packets =
                Insert(@, <<client_id, the(packet.packet_identifier)>>, packet)]

\* utils.rs register_session: the map afterwards and the state returned.
\* register_session replacing the session it finds.
register_session_sessions_replace(sessions, client_id) ==
    Insert(sessions, client_id, SessionHandler_new)

register_session_sessions(sessions, client_id) ==
    IF client_id \in DOMAIN sessions THEN sessions
    ELSE Insert(sessions, client_id, SessionHandler_new)

register_session(sessions, client_id) ==
    IF client_id \in DOMAIN sessions THEN "SessionPresent" ELSE "CleanSession"

register_clean_session(sessions, client_id) ==
    Insert(sessions, client_id, SessionHandler_new)

\* utils.rs persist_packets: register_publish on every subscriber's session
\* in turn; the unwrap panics at the first subscriber that has no session.
RECURSIVE persist_packets(_, _, _)
persist_packets(sessions, client_ids, publish_packet) ==
    IF client_ids = << >> THEN [ok |-> TRUE, id2session |-> sessions]
    ELSE IF Head(client_ids) \notin DOMAIN sessions
         THEN [ok |-> FALSE, id2session |-> sessions]
         ELSE persist_packets(
                 [sessions EXCEPT ![Head(client_ids)] =
                      register_publish(@, Head(client_ids), publish_packet)],
                 Tail(client_ids), publish_packet)

\* session_handler.rs lines 54-79: the acknowledgment is marked only where
\* the map already has the key.
register_puback(session, client_id, packet) ==
    IF <<client_id, the(packet.packet_identifier)>> \in DOMAIN session.client2puback
    THEN [session EXCEPT !.client2puback =
              Insert(@, <<client_id, the(packet.packet_identifier)>>, TRUE)]
    ELSE session

register_pubrel(session, client_id, packet) ==
    IF <<client_id, the(packet.packet_identifier)>> \in DOMAIN session.client2pubrel
    THEN [session EXCEPT !.client2pubrel =
              Insert(@, <<client_id, the(packet.packet_identifier)>>, TRUE)]
    ELSE session

register_pubrec(session, client_id, packet) ==
    IF <<client_id, the(packet.packet_identifier)>> \in DOMAIN session.client2pubrec
    THEN [session EXCEPT !.client2pubrec =
              Insert(@, <<client_id, the(packet.packet_identifier)>>, TRUE)]
    ELSE session

\* session_handler.rs lines 81-112: the stored flag, false where there is
\* none.
is_puback_complete(session, client_id, packet) ==
    LET key == <<client_id, the(packet.packet_identifier)>>
    IN  IF key \in DOMAIN session.client2puback
        THEN session.client2puback[key] ELSE FALSE

is_pubrel_complete(session, client_id, packet) ==
    LET key == <<client_id, the(packet.packet_identifier)>>
    IN  IF key \in DOMAIN session.client2pubrel
        THEN session.client2pubrel[key] ELSE FALSE

is_pubrec_complete(session, client_id, packet) ==
    LET key == <<client_id, the(packet.packet_identifier)>>
    IN  IF key \in DOMAIN session.client2pubrec
        THEN session.client2pubrec[key] ELSE FALSE

\* The sessions on their own: sessions are created, PUBLISH packets of two
\* topics are persisted for lists of clients that have a session, and
\* acknowledgments are registered.
SessionTopics == {"t1", "t2"}
\* Longest QoS 0 log a session holds when the sessions are taken on their own.
MaxSessionLog == 2

\* QoS 0 packets of two topics, so that the packets of one log differ.
SessionPublishPackets ==
    {p \in {[packet_type |-> "PUBLISH", qos_level |-> q,
             packet_identifier |-> IF q = "AtMostOnce" THEN {} ELSE {i},
             topic_name |-> tn] :
                q \in QoSLevels, i \in PacketIds, tn \in SessionTopics} :
        p.qos_level = "AtMostOnce" \/ p.topic_name \in Topics}

SessionAckPackets ==
    [packet_type : {"PUBACK", "PUBREC", "PUBREL"},
     packet_identifier : {{i} : i \in PacketIds}, reason_code : {"Success"}]

\* The subscriber lists find_subscribers can return for clients with a
\* session.
SubscriberLists ==
    {ids \in UNION {[1..n -> DOMAIN id2session] : n \in 0..Cardinality(ClientIds)} :
        \A i \in DOMAIN ids : \A j \in DOMAIN ids : i # j => ids[i] # ids[j]}

SessionCall(op, client_id, client_ids, packet) ==
    /\ call' = [op |-> op, socket |-> "none", client_id |-> client_id, ret |-> {}]
    /\ handled' = [socket |-> "none", packet |-> packet, client_id |-> client_ids,
                   result |-> "Ok", sent |-> << >>]
    /\ UNCHANGED <<socket2id, id2socket, topic2subscribers, broker2listener,
                   stream_repository, task,
                   listener2broker, rx>>

RegisterSession(client_id, clean_start_flag) ==
    /\ id2session' = IF clean_start_flag
                     THEN register_clean_session(id2session, client_id)
                     ELSE register_session_sessions(id2session, client_id)
    /\ SessionCall("register_session", client_id, {client_id},
                   [packet_type |-> "none"])

PersistPackets(client_ids, publish_packet) ==
    LET persisted == persist_packets(id2session, client_ids, publish_packet)
    IN  /\ persisted.ok
        /\ \A c \in DOMAIN persisted.id2session :
               \A k \in DOMAIN persisted.id2session[c].client2pub_qos0_packets :
                   Len(persisted.id2session[c].client2pub_qos0_packets[k])
                       <= MaxSessionLog
        /\ id2session' = persisted.id2session
        /\ SessionCall("persist_packets", "none",
                       {client_ids[i] : i \in DOMAIN client_ids},
                       publish_packet)

RegisterAck(client_id, packet) ==
    /\ client_id \in DOMAIN id2session
    /\ id2session' =
           [id2session EXCEPT ![client_id] =
               CASE packet.packet_type = "PUBACK" -> register_puback(@, client_id, packet)
                 [] packet.packet_type = "PUBREC" -> register_pubrec(@, client_id, packet)
                 [] packet.packet_type = "PUBREL" -> register_pubrel(@, client_id, packet)]
    /\ SessionCall(CASE packet.packet_type = "PUBACK" -> "register_puback"
                     [] packet.packet_type = "PUBREC" -> "register_pubrec"
                     [] packet.packet_type = "PUBREL" -> "register_pubrel",
                   client_id, {client_id}, packet)

NextSessionHandler ==
    \/ \E c \in ClientIds, clean \in BOOLEAN : RegisterSession(c, clean)
    \/ \E ids \in SubscriberLists, p \in SessionPublishPackets : PersistPackets(ids, p)
    \/ \E c \in ClientIds, p \in SessionAckPackets : RegisterAck(c, p)

SpecSessionHandler == Init /\ [][NextSessionHandler]_vars

\* ------------------------------------------------------------ TopicHandler
find_subscribers(topic_path) ==
    IF topic_path \in DOMAIN topic2subscribers
    THEN topic2subscribers[topic_path] ELSE << >>

Members(seq) == {seq[i] : i \in DOMAIN seq}

\* subscribe is idempotent: a second subscription leaves one membership.
subscribe(subscribers, client_id, topic_filter) ==
    IF topic_filter \notin DOMAIN subscribers
    THEN Insert(subscribers, topic_filter, <<client_id>>)
    ELSE IF client_id \in Members(subscribers[topic_filter])
         THEN subscribers
         ELSE [subscribers EXCEPT ![topic_filter] = Append(@, client_id)]

\* unsubscribe_all removes the client from every filter's subscribers; the
\* emptied entries stay.
unsubscribe_all(subscribers, client_id) ==
    [f \in DOMAIN subscribers |->
        SelectSeq(subscribers[f], LAMBDA c : c # client_id)]

\* ------------------------------------------------------------ dispatcher
\* generate_client_id: a random 64-bit value and a nanosecond timestamp, so
\* an id no client uses yet.
FreshIds == GeneratedIds \ (DOMAIN id2session \cup DOMAIN id2socket)

ConnectHandler_client_id(control_packet, generated) ==
    IF has_client_id(control_packet) THEN control_packet.client_id ELSE generated

\* ConnectHandler_sent with the CONNACK sent first.
ConnectHandler_sent_connack_first(socket, previous_socket, session_present) ==
    <<send_packet(socket, connack(session_present))>>
    \o (IF previous_socket = {} THEN << >>
        ELSE <<send_packet(the(previous_socket), disconnect("SessionTakenOver"))>>)

\* connect_handler.rs lines 36-40 and 53-54: what CONNECT puts on the queue.
ConnectHandler_sent(socket, previous_socket, session_present) ==
    (IF previous_socket = {} THEN << >>
     ELSE <<send_packet(the(previous_socket), disconnect("SessionTakenOver"))>>)
    \o <<send_packet(socket, connack(session_present))>>

\* ConnectHandler_session_present with the clean start flag ignored.
ConnectHandler_session_present_any(control_packet, client_id) ==
    register_session(id2session, client_id) = "SessionPresent"

\* connect_handler.rs lines 42-52.
ConnectHandler_session_present(control_packet, client_id) ==
    IF control_packet.clean_start_flag THEN FALSE
    ELSE register_session(id2session, client_id) = "SessionPresent"

ConnectHandler_sessions(control_packet, client_id) ==
    IF control_packet.clean_start_flag
    THEN register_clean_session(id2session, client_id)
    ELSE register_session_sessions(id2session, client_id)

\* ConnectHandler_topics with the subscriptions left alone.
ConnectHandler_topics_keep(control_packet, client_id) == topic2subscribers

ConnectHandler_topics(control_packet, client_id) ==
    IF control_packet.clean_start_flag
    THEN unsubscribe_all(topic2subscribers, client_id)
    ELSE topic2subscribers

ConnectHandler_process(socket, control_packet) ==
    \E generated \in (IF has_client_id(control_packet) THEN GeneratedIds
                      ELSE FreshIds) :
        LET client_id == ConnectHandler_client_id(control_packet, generated)
            previous_socket == register_previous_socket(id2socket, client_id)
            session_present ==
                ConnectHandler_session_present(control_packet, client_id)
            sent == ConnectHandler_sent(socket, previous_socket, session_present)
        IN  /\ socket2id' = register_socket2id(socket2id, socket, client_id)
            /\ id2socket' = register_id2socket(id2socket, socket, client_id)
            /\ id2session' = ConnectHandler_sessions(control_packet, client_id)
            /\ topic2subscribers' = ConnectHandler_topics(control_packet, client_id)
            /\ broker2listener' = broker2listener \o sent
            /\ handled' = [socket |-> socket, packet |-> control_packet,
                           client_id |-> {client_id}, result |-> "Ok",
                           sent |-> sent]
            /\ UNCHANGED <<stream_repository, call,
                   listener2broker, rx>>

\* ClientNotRegistered with the socket registered on the way out.
ClientNotRegistered_registers(socket, control_packet) ==
    /\ handled' = [socket |-> socket, packet |-> control_packet, client_id |-> {},
                   result |-> "Err", sent |-> << >>]
    /\ socket2id' = Insert(socket2id, socket, "c1")
    /\ UNCHANGED <<id2socket, id2session, topic2subscribers,
                   broker2listener, stream_repository, call,
                   listener2broker, rx>>

\* The `?` on get_client_id: the handler returns Err and does nothing else.
ClientNotRegistered(socket, control_packet) ==
    /\ handled' = [socket |-> socket, packet |-> control_packet, client_id |-> {},
                   result |-> "Err", sent |-> << >>]
    /\ UNCHANGED <<socket2id, id2socket, id2session, topic2subscribers,
                   broker2listener, stream_repository, call,
                   listener2broker, rx>>

\* PublishHandler_ack answering every PUBLISH with a PUBACK.
PublishHandler_ack_always(socket, control_packet) ==
    <<send_packet(socket, puback(control_packet.packet_identifier))>>

\* publish_handler.rs lines 27-36: the acknowledgment to the sender.
PublishHandler_ack(socket, control_packet) ==
    IF control_packet.qos_level = "AtLeastOnce"
    THEN <<send_packet(socket, puback(control_packet.packet_identifier))>>
    ELSE IF control_packet.qos_level = "ExactlyOnce"
         THEN <<send_packet(socket, pubrec(control_packet.packet_identifier))>>
         ELSE << >>

\* publish_handler.rs lines 43-49: get_socket of each subscriber, the
\* failed lookups dropped.
RECURSIVE PublishHandler_sockets(_)
PublishHandler_sockets(subscribers) ==
    IF subscribers = << >> THEN << >>
    ELSE (IF get_socket(Head(subscribers)) = {} THEN << >>
          ELSE <<the(get_socket(Head(subscribers)))>>)
         \o PublishHandler_sockets(Tail(subscribers))

\* PublishHandler_clients with the sender left in.
PublishHandler_clients_loopback(socket, subscribers) ==
    PublishHandler_sockets(subscribers)

\* publish_handler.rs lines 43-51: the recipients, without the sender.
PublishHandler_clients(socket, subscribers) ==
    SelectSeq(PublishHandler_sockets(subscribers), LAMBDA receiver : receiver # socket)

\* PublishHandler_sent with the fan-out sent first.
PublishHandler_sent_fanout_first(ack, fanout) == fanout \o ack

\* publish_handler.rs lines 28-52: the acknowledgment is sent (lines 31, 35)
\* before the fan-out (line 52).
PublishHandler_sent(ack, fanout) == ack \o fanout

PublishHandler_process(socket, control_packet) ==
    IF get_client_id(socket) = {} THEN ClientNotRegistered(socket, control_packet)
    ELSE
        LET ack == PublishHandler_ack(socket, control_packet)
            subscribers == find_subscribers(control_packet.topic_name)
            persisted == persist_packets(id2session, subscribers, control_packet)
            fanout == IF persisted.ok
                      THEN <<send_packets(PublishHandler_clients(socket, subscribers),
                                          control_packet)>>
                      ELSE << >>
            sent == PublishHandler_sent(ack, fanout)
        IN  /\ \A c \in DOMAIN persisted.id2session :
                   \A k \in DOMAIN persisted.id2session[c].client2pub_qos0_packets :
                       Len(persisted.id2session[c].client2pub_qos0_packets[k]) <= MaxLog
            /\ id2session' = persisted.id2session
            /\ broker2listener' = broker2listener \o sent
            /\ handled' = [socket |-> socket, packet |-> control_packet,
                           client_id |-> get_client_id(socket),
                           result |-> IF persisted.ok THEN "Ok" ELSE "Panic",
                           sent |-> sent]
            /\ UNCHANGED <<socket2id, id2socket, topic2subscribers,
                           stream_repository, call,
                   listener2broker, rx>>

\* subscribe_handler.rs lines 31-36: subscribe to each listed filter in turn.
RECURSIVE SubscribeHandler_topics(_, _, _)
SubscribeHandler_topics(subscribers, client_id, topic_filters) ==
    IF topic_filters = << >> THEN subscribers
    ELSE SubscribeHandler_topics(
             subscribe(subscribers, client_id, Head(topic_filters).topic_filter),
             client_id, Tail(topic_filters))

\* SubscribeHandler_reason_codes granting QoS 1 where more than QoS 0 was
\* asked for.
SubscribeHandler_reason_codes_asked(topic_filters) ==
    [i \in 1..Len(topic_filters) |->
        IF topic_filters[i].maximum_qos = "AtMostOnce" THEN "GrantedQoS0"
        ELSE "GrantedQoS1"]

SubscribeHandler_reason_codes(topic_filters) ==
    [i \in 1..Len(topic_filters) |-> "GrantedQoS0"]

SubscribeHandler_process(socket, control_packet) ==
    IF get_client_id(socket) = {} THEN ClientNotRegistered(socket, control_packet)
    ELSE
        LET client_id == the(get_client_id(socket))
            sent == <<send_packet(socket,
                         suback(control_packet.packet_identifier,
                                SubscribeHandler_reason_codes(
                                    control_packet.topic_filters)))>>
        IN  /\ topic2subscribers' =
                   SubscribeHandler_topics(topic2subscribers, client_id,
                                           control_packet.topic_filters)
            /\ broker2listener' = broker2listener \o sent
            /\ handled' = [socket |-> socket, packet |-> control_packet,
                           client_id |-> {client_id}, result |-> "Ok",
                           sent |-> sent]
            /\ UNCHANGED <<socket2id, id2socket, id2session, stream_repository,
                           call,
                   listener2broker, rx>>

DisconnectHandler_process(socket, control_packet) ==
    IF get_client_id(socket) = {} THEN ClientNotRegistered(socket, control_packet)
    ELSE
        LET client_id == the(get_client_id(socket))
            sent == <<send_packet(socket, disconnect("NormalDisconnection"))>>
        IN  /\ socket2id' = unregister_socket2id(socket2id, socket)
            /\ id2socket' = unregister_id2socket(id2socket, client_id)
            /\ broker2listener' = broker2listener \o sent
            /\ handled' = [socket |-> socket, packet |-> control_packet,
                           client_id |-> {client_id}, result |-> "Ok",
                           sent |-> sent]
            /\ UNCHANGED <<id2session, topic2subscribers, stream_repository,
                           call,
                   listener2broker, rx>>

\* ------------------------------------------------------------ QoS 2, ping
\* ControlPacket constructors for the other packets the broker originates.
pubrel(packet_identifier) ==
    [packet_type |-> "PUBREL", packet_identifier |-> packet_identifier,
     reason_code |-> "Success"]

pubcomp(packet_identifier) ==
    [packet_type |-> "PUBCOMP", packet_identifier |-> packet_identifier,
     reason_code |-> "Success"]

pingresp == [packet_type |-> "PINGRESP"]

unsuback(packet_identifier, reason_codes) ==
    [packet_type |-> "UNSUBACK", packet_identifier |-> packet_identifier,
     reason_codes |-> reason_codes]

\* The other decoded packets a client can send.
PubrecPackets ==
    [packet_type : {"PUBREC"}, packet_identifier : {{i} : i \in PacketIds}]

PubrelPackets ==
    [packet_type : {"PUBREL"}, packet_identifier : {{i} : i \in PacketIds}]

PingreqPackets == [packet_type : {"PINGREQ"}]

\* topic.rs from_unsubscribe: an UNSUBSCRIBE filter has maximum_qos set to
\* ExactlyOnce.
UnsubscribeFilterLists ==
    UNION {[1..n -> {TopicFilter(tf, "ExactlyOnce") : tf \in Topics}] :
              n \in 1..MaxFilters}

UnsubscribePackets ==
    [packet_type : {"UNSUBSCRIBE"}, packet_identifier : {{i} : i \in PacketIds},
     topic_filters : UnsubscribeFilterLists]

\* unsubscribe removes the client from the filter's subscribers; an emptied
\* entry stays.
unsubscribe(subscribers, client_id, topic_filter) ==
    IF topic_filter \notin DOMAIN subscribers THEN subscribers
    ELSE [subscribers EXCEPT ![topic_filter] =
              SelectSeq(@, LAMBDA c : c # client_id)]

\* pubrec_handler.rs lines 28-36: the lookup, the PUBREL and its send_packet
\* are written twice in the handler's body.
PubrecHandler_sent(socket, control_packet) ==
    <<send_packet(socket, pubrel(control_packet.packet_identifier)),
      send_packet(socket, pubrel(control_packet.packet_identifier))>>

PubrecHandler_process(socket, control_packet) ==
    IF get_client_id(socket) = {} THEN ClientNotRegistered(socket, control_packet)
    ELSE
        LET sent == PubrecHandler_sent(socket, control_packet)
        IN  /\ broker2listener' = broker2listener \o sent
            /\ handled' = [socket |-> socket, packet |-> control_packet,
                           client_id |-> get_client_id(socket), result |-> "Ok",
                           sent |-> sent]
            /\ UNCHANGED <<socket2id, id2socket, id2session, topic2subscribers,
                           stream_repository, call,
                   listener2broker, rx>>

\* PubrelHandler_sent answering with a PUBREL.
PubrelHandler_sent_pubrel(socket, control_packet) ==
    <<send_packet(socket, pubrel(control_packet.packet_identifier))>>

\* pubrel_handler.rs lines 29-30.
PubrelHandler_sent(socket, control_packet) ==
    <<send_packet(socket, pubcomp(control_packet.packet_identifier))>>

PubrelHandler_process(socket, control_packet) ==
    IF get_client_id(socket) = {} THEN ClientNotRegistered(socket, control_packet)
    ELSE
        LET sent == PubrelHandler_sent(socket, control_packet)
        IN  /\ broker2listener' = broker2listener \o sent
            /\ handled' = [socket |-> socket, packet |-> control_packet,
                           client_id |-> get_client_id(socket), result |-> "Ok",
                           sent |-> sent]
            /\ UNCHANGED <<socket2id, id2socket, id2session, topic2subscribers,
                           stream_repository, call,
                   listener2broker, rx>>

PingreqHandler_process(socket, control_packet) ==
    IF get_client_id(socket) = {} THEN ClientNotRegistered(socket, control_packet)
    ELSE
        LET sent == <<send_packet(socket, pingresp)>>
        IN  /\ broker2listener' = broker2listener \o sent
            /\ handled' = [socket |-> socket, packet |-> control_packet,
                           client_id |-> get_client_id(socket), result |-> "Ok",
                           sent |-> sent]
            /\ UNCHANGED <<socket2id, id2socket, id2session, topic2subscribers,
                           stream_repository, call,
                   listener2broker, rx>>

\* unsubscribe_handler.rs lines 31-35: unsubscribe from each listed filter.
RECURSIVE UnsubscribeHandler_topics(_, _, _)
UnsubscribeHandler_topics(subscribers, client_id, topic_filters) ==
    IF topic_filters = << >> THEN subscribers
    ELSE UnsubscribeHandler_topics(
             unsubscribe(subscribers, client_id, Head(topic_filters).topic_filter),
             client_id, Tail(topic_filters))

UnsubscribeHandler_reason_codes(topic_filters) ==
    [i \in 1..Len(topic_filters) |-> "Success"]

UnsubscribeHandler_process(socket, control_packet) ==
    IF get_client_id(socket) = {} THEN ClientNotRegistered(socket, control_packet)
    ELSE
        LET client_id == the(get_client_id(socket))
            sent == <<send_packet(socket,
                         unsuback(control_packet.packet_identifier,
                                  UnsubscribeHandler_reason_codes(
                                      control_packet.topic_filters)))>>
        IN  /\ topic2subscribers' =
                   UnsubscribeHandler_topics(topic2subscribers, client_id,
                                             control_packet.topic_filters)
            /\ broker2listener' = broker2listener \o sent
            /\ handled' = [socket |-> socket, packet |-> control_packet,
                           client_id |-> {client_id}, result |-> "Ok",
                           sent |-> sent]
            /\ UNCHANGED <<socket2id, id2socket, id2session, stream_repository,
                           call,
                   listener2broker, rx>>

\* ------------------------------------------------------------ Rx and Tx
\* rx_connection_handler.rs line 48: an accepted connection's write half is
\* put in the stream map under the peer's address.
Accept(socket) ==
    /\ socket \notin stream_repository
    /\ stream_repository' = stream_repository \cup {socket}
    /\ handled' = NoPacketHandled
    /\ UNCHANGED <<socket2id, id2socket, id2session, topic2subscribers,
                   broker2listener, call, task, listener2broker, rx>>

is_disconnection(packet) == packet.packet_type = "DISCONNECT"

\* a variant of clean_after_disconnection that leaves the subscriptions alone
clean_after_disconnection_keep_topics(st, socket) ==
    [socket2id |-> unregister_by_socket_socket2id(st.socket2id, socket),
     id2socket |-> unregister_by_socket_id2socket(st.socket2id, st.id2socket,
                                                  socket),
     topic2subscribers |-> st.topic2subscribers,
     stream_repository |-> st.stream_repository \ {socket}]

\* tx_connection_handler.rs lines 86-102, on the registries and the stream
\* map given in st.
clean_after_disconnection(st, socket) ==
    LET unbound == unregister_by_socket_result(st.socket2id, socket)
    IN  [socket2id |-> unregister_by_socket_socket2id(st.socket2id, socket),
         id2socket |-> unregister_by_socket_id2socket(st.socket2id, st.id2socket,
                                                      socket),
         topic2subscribers |->
             IF unbound = {} THEN st.topic2subscribers
             ELSE unsubscribe_all(st.topic2subscribers, the(unbound)),
         stream_repository |-> st.stream_repository \ {socket}]

RECURSIVE TxConnectionHandler_clean(_, _)
TxConnectionHandler_clean(st, sockets) ==
    IF sockets = << >> THEN st
    ELSE TxConnectionHandler_clean(clean_after_disconnection(st, Head(sockets)),
                                   Tail(sockets))

\* One message taken from the queue and carried out for all its recipients:
\* a DISCONNECT cleans up after each of them, any other packet is written to
\* the recipients the stream map holds.
TxConnectionHandler_handle ==
    /\ broker2listener # << >>
    /\ LET message == Head(broker2listener)
           st == [socket2id |-> socket2id, id2socket |-> id2socket,
                  topic2subscribers |-> topic2subscribers,
                  stream_repository |-> stream_repository]
           after == IF is_disconnection(message.packet)
                    THEN TxConnectionHandler_clean(st, message.sockets)
                    ELSE st
       IN  /\ socket2id' = after.socket2id
           /\ id2socket' = after.id2socket
           /\ topic2subscribers' = after.topic2subscribers
           /\ stream_repository' = after.stream_repository
    /\ broker2listener' = Tail(broker2listener)
    /\ handled' = NoPacketHandled
    /\ UNCHANGED <<id2session, task, listener2broker, rx>>

handle_outgoing_connections ==
    /\ TxConnectionHandler_handle
    /\ UNCHANGED call

\* ------------------------------------------------------------ Tx, observed
\* The same stage with what it does to the sockets written down.  failing is
\* the set of sockets whose try_write or flush returns an error (lines
\* 145-161); an event is a call on a socket's write half.
\* Lines 64-72: the packet is written to a recipient the stream map holds.
TxClientHandler_send_packet(socket, stream_repo, failing) ==
    IF socket \notin stream_repo THEN << >>
    ELSE IF socket \in failing
         THEN <<[socket |-> socket, event |-> "write_failed"]>>
         ELSE <<[socket |-> socket, event |-> "write"]>>

\* Lines 91-100: the shutdown of clean_after_disconnection.
clean_after_disconnection_shutdown(socket, stream_repo) ==
    IF socket \in stream_repo
    THEN <<[socket |-> socket, event |-> "shutdown"]>>
    ELSE << >>

\* a variant of the loop that gives up after a failed write
TxConnectionHandler_remaining_abort(sockets, events) ==
    IF \E i \in DOMAIN events : events[i].event = "write_failed"
    THEN << >>
    ELSE Tail(sockets)

\* Line 47: for socket in sockets, each recipient in a task of its own
TxConnectionHandler_remaining(sockets, events) == Tail(sockets)

\* Lines 47-75: the events of one message, recipient after recipient.
RECURSIVE TxConnectionHandler_events(_, _, _, _)
TxConnectionHandler_events(st, packet, sockets, failing) ==
    IF sockets = << >> THEN << >>
    ELSE LET socket == Head(sockets)
             events == IF is_disconnection(packet)
                       THEN clean_after_disconnection_shutdown(socket,
                                st.stream_repository)
                       ELSE TxClientHandler_send_packet(socket,
                                st.stream_repository, failing)
             after == IF is_disconnection(packet)
                      THEN clean_after_disconnection(st, socket)
                      ELSE st
         IN  events \o TxConnectionHandler_events(after, packet,
                           TxConnectionHandler_remaining(sockets, events),
                           failing)

\* Lines 33-84 take a Sender for the Rx-to-dispatcher queue (listener2broker)
\* and clone it per task, and no line sends on it.
TxConnectionHandler_listener2broker(events) == << >>

handle_outgoing_connections_observed(failing) ==
    /\ TxConnectionHandler_handle
    /\ LET message == Head(broker2listener)
           st == [socket2id |-> socket2id, id2socket |-> id2socket,
                  topic2subscribers |-> topic2subscribers,
                  stream_repository |-> stream_repository]
           events == TxConnectionHandler_events(st, message.packet,
                                                message.sockets, failing)
       IN  call' = [op |-> "handle_outgoing_connections", socket |-> "none",
                    client_id |-> "none", ret |-> {},
                    sockets |-> message.sockets, packet |-> message.packet,
                    events |-> events,
                    listener2broker |->
                        TxConnectionHandler_listener2broker(events),
                    unbound |-> {<<message.sockets[i],
                                   get_client_id(message.sockets[i])>> :
                                    i \in DOMAIN message.sockets}]

\* packet_dispatcher.rs process_message: the handler of the packet's type.
\* packet_dispatcher.rs, lines 55-86: the packet types whose match arm is {}
NoHandlerTypes ==
    {"RESERVED", "CONNACK", "PUBACK", "PUBCOMP", "SUBACK", "UNSUBACK",
     "PINGRESP", "AUTH"}

NoHandlerPackets == [packet_type : NoHandlerTypes]

\* a variant of the empty arm that sends the packet back
NoHandler_sent_echo(socket, control_packet) ==
    <<send_packet(socket, control_packet)>>

\* an empty arm sends nothing
NoHandler_sent(socket, control_packet) == << >>

\* process_message for a packet type with an empty arm: line 88 returns Ok(())
NoHandler_process(socket, control_packet) ==
    LET sent == NoHandler_sent(socket, control_packet)
    IN  /\ broker2listener' = broker2listener \o sent
        /\ handled' = [socket |-> socket, packet |-> control_packet,
                       client_id |-> get_client_id(socket), result |-> "Ok",
                       sent |-> sent]
        /\ UNCHANGED <<socket2id, id2socket, id2session, topic2subscribers,
                       stream_repository, call,
                   listener2broker, rx>>

PacketDispatcher_process_message(socket, control_packet) ==
       CASE control_packet.packet_type = "CONNECT" ->
               ConnectHandler_process(socket, control_packet)
         [] control_packet.packet_type = "PUBLISH" ->
               PublishHandler_process(socket, control_packet)
         [] control_packet.packet_type = "SUBSCRIBE" ->
               SubscribeHandler_process(socket, control_packet)
         [] control_packet.packet_type = "PUBREC" ->
               PubrecHandler_process(socket, control_packet)
         [] control_packet.packet_type = "PUBREL" ->
               PubrelHandler_process(socket, control_packet)
         [] control_packet.packet_type = "UNSUBSCRIBE" ->
               UnsubscribeHandler_process(socket, control_packet)
         [] control_packet.packet_type = "PINGREQ" ->
               PingreqHandler_process(socket, control_packet)
         [] control_packet.packet_type = "DISCONNECT" ->
               DisconnectHandler_process(socket, control_packet)
         [] control_packet.packet_type \in NoHandlerTypes ->
               NoHandler_process(socket, control_packet)

\* One packet handled from beginning to end, the queue to the Tx stage
\* having room for what the handler sends.
process_message(socket, control_packet) ==
    /\ Len(broker2listener) < MaxBacklog
    /\ PacketDispatcher_process_message(socket, control_packet)
    /\ UNCHANGED task

\* Connection handling: clients connect, take or are given a client id,
\* reconnect and disconnect.
NextConnect ==
    \/ \E s \in Sockets : Accept(s)
    \/ \E s \in Sockets, p \in ConnectPackets : process_message(s, p)
    \/ \E s \in Sockets, p \in DisconnectPackets : process_message(s, p)
    \/ handle_outgoing_connections

SpecConnect == Init /\ [][NextConnect]_vars

\* Publishing: clients that name themselves connect, subscribe, publish and
\* disconnect over connections the stream map does not hold, as the broker
\* tests drive the dispatcher.
NamedConnectPackets == {p \in ConnectPackets : has_client_id(p)}

NextPublish ==
    \/ \E s \in Sockets, p \in NamedConnectPackets : process_message(s, p)
    \/ \E s \in Sockets, p \in SubscribePackets : process_message(s, p)
    \/ \E s \in Sockets, p \in PublishPackets : process_message(s, p)
    \/ \E s \in Sockets, p \in DisconnectPackets : process_message(s, p)
    \/ handle_outgoing_connections

SpecPublish == Init /\ [][NextPublish]_vars

\* The whole dispatcher: every packet type that has a handler, sent over
\* two connections by clients that give the same client id; a SUBSCRIBE
\* lists up to MaxDispatcherFilters filters of two topics with any maximum
\* QoS.
OneClientConnectPackets == {p \in ConnectPackets : p.client_id = "c1"}

DispatcherTopics == {"t1", "t2"}
MaxDispatcherFilters == 2

DispatcherSubscribePackets ==
    [packet_type : {"SUBSCRIBE"}, packet_identifier : {{i} : i \in PacketIds},
     topic_filters :
         UNION {[1..n -> {TopicFilter(tf, q) : tf \in DispatcherTopics,
                                              q \in QoSLevels}] :
                   n \in 1..MaxDispatcherFilters}]

NextDispatcher ==
    \/ \E s \in Sockets, p \in OneClientConnectPackets : process_message(s, p)
    \/ \E s \in Sockets, p \in PublishPackets : process_message(s, p)
    \/ \E s \in Sockets, p \in PubrecPackets : process_message(s, p)
    \/ \E s \in Sockets, p \in PubrelPackets : process_message(s, p)
    \/ \E s \in Sockets, p \in DispatcherSubscribePackets : process_message(s, p)
    \/ \E s \in Sockets, p \in UnsubscribePackets : process_message(s, p)
    \/ \E s \in Sockets, p \in PingreqPackets : process_message(s, p)
    \/ \E s \in Sockets, p \in DisconnectPackets : process_message(s, p)
    \/ handle_outgoing_connections

SpecDispatcher == Init /\ [][NextDispatcher]_vars

\* The messages a step adds at the tail of the dispatcher-to-Tx queue.
Enqueued ==
    IF Len(broker2listener') >= Len(broker2listener)
    THEN SubSeq(broker2listener', Len(broker2listener) + 1, Len(broker2listener'))
    ELSE << >>

\* The Tx stage observed, behind a dispatcher that takes CONNECT (without
\* clean start, so that subscriptions outlive a reconnect), SUBSCRIBE, QoS 0
\* PUBLISH and DISCONNECT from accepted or unknown sockets.
TxConnectPackets == {p \in NamedConnectPackets : ~p.clean_start_flag}

TxPublishPackets == {p \in PublishPackets : p.qos_level = "AtMostOnce"}

NextTx ==
    \/ \E s \in Sockets : Accept(s)
    \/ \E s \in Sockets, p \in TxConnectPackets : process_message(s, p)
    \/ \E s \in Sockets, p \in SubscribePackets : process_message(s, p)
    \/ \E s \in Sockets, p \in TxPublishPackets : process_message(s, p)
    \/ \E s \in Sockets, p \in DisconnectPackets : process_message(s, p)
    \/ \E failing \in SUBSET Sockets : handle_outgoing_connections_observed(failing)

SpecTx == Init /\ [][NextTx]_vars

\* The Tx stage observed on its own: its queue is fed by send_packets
\* (utils.rs lines 55-67) with any recipient list a handler can build and any
\* packet that is not a DISCONNECT.
RecipientLists ==
    {sockets \in UNION {[1..n -> Sockets] : n \in 0..Cardinality(Sockets)} :
        \A i, j \in DOMAIN sockets : sockets[i] = sockets[j] => i = j}

FanoutPackets == PublishPackets \cup {pingresp}

SendPackets(sockets, control_packet) ==
    /\ Len(broker2listener) < MaxBacklog
    /\ broker2listener' = broker2listener \o <<send_packets(sockets, control_packet)>>
    /\ handled' = NoPacketHandled
    /\ UNCHANGED <<socket2id, id2socket, id2session, topic2subscribers,
                   stream_repository, call, task,
                   listener2broker, rx>>

NextTxFanout ==
    \/ \E s \in Sockets : Accept(s)
    \/ \E sockets \in RecipientLists, p \in FanoutPackets : SendPackets(sockets, p)
    \/ \E failing \in SUBSET Sockets : handle_outgoing_connections_observed(failing)

SpecTxFanout == Init /\ [][NextTxFanout]_vars

\* The dispatcher with a client that connects and subscribes, and the packet
\* types it has no handler for.
NextNoHandler ==
    \/ \E s \in Sockets, p \in OneClientConnectPackets : process_message(s, p)
    \/ \E s \in Sockets, p \in SubscribePackets : process_message(s, p)
    \/ \E s \in Sockets, p \in NoHandlerPackets : process_message(s, p)
    \/ handle_outgoing_connections

SpecNoHandler == Init /\ [][NextNoHandler]_vars

\* ------------------------------------------------------------ Rx
\* rx_connection_handler.rs: the task of an accepted connection puts the
\* write half in the stream map and runs handle_client, a loop of decode
\* attempts on the read half.  rx[socket] is "none" before the connection is
\* accepted, "decode" while the loop runs and "exit" once it has ended.
\* The room the model gives the Rx-to-dispatcher queue (mpsc::channel(1000)).
MaxInbound == 1

\* The std::io::ErrorKind of a failed read of the stream.
ErrorKinds ==
    {"UnexpectedEof", "ConnectionAborted", "ConnectionRefused", "ConnectionReset",
     "TimedOut"}

\* The ReadError a decoder working on bytes already read can give.
BufferCauses ==
    {"NotEnoughData", "TooManyBitsForType", "ExceededMaxValue", "InvalidData"}

\* fixed_header_decoder.rs lines 102-118 and mqtt_decoder.rs lines 52-68: the
\* cause given to a failed read of the first byte or of the packet body.
ReadError_from_kind(kind) ==
    IF kind \in {"UnexpectedEof", "ConnectionAborted", "ConnectionRefused",
                 "ConnectionReset"}
    THEN "ConnectionError"
    ELSE "IOError"

\* What the stream gives one decode attempt: a read that fails at some stage,
\* bytes a decoder rejects, or the bytes of a packet.
StreamOutcomes(packets) ==
    [at : {"first_byte", "remaining_length", "read_buf"}, kind : ErrorKinds]
    \cup [at : {"fixed_header", "variable_header", "payload"}, cause : BufferCauses]
    \cup [at : {"packet"}, packet : packets]

DecodeError(error, cause) == [ok |-> FALSE, error |-> error, cause |-> cause]

\* mqtt_decoder.rs decode_packet with FixedHeaderDecoder::decode_from_stream.
decode_packet(outcome) ==
    CASE outcome.at = "first_byte" ->
             DecodeError("PacketType", ReadError_from_kind(outcome.kind))
      [] outcome.at = "remaining_length" ->
             \* fixed_header_decoder.rs lines 75-77 and 126-127
             DecodeError("RemainingLength", "InvalidData")
      [] outcome.at = "fixed_header" ->
             DecodeError("PacketType", outcome.cause)
      [] outcome.at = "read_buf" ->
             DecodeError("VariableHeaderAndPayload",
                         ReadError_from_kind(outcome.kind))
      [] outcome.at = "variable_header" ->
             DecodeError("Property", outcome.cause)
      [] outcome.at = "payload" ->
             DecodeError("Payload", outcome.cause)
      [] outcome.at = "packet" ->
             [ok |-> TRUE, packet |-> outcome.packet]

\* a variant of handle_client_break that ends the loop on any decode error
handle_client_break_any_error(result) == ~result.ok

\* rx_connection_handler.rs lines 113-121: the loop is left on a decode error
\* whose cause is ConnectionError.
handle_client_break(result) ==
    /\ ~result.ok
    /\ result.cause = "ConnectionError"

\* Lines 101-112: a decoded packet is sent to the dispatcher with its socket.
handle_client_sent(socket, result) ==
    IF result.ok THEN <<[socket |-> socket, packet |-> result.packet]>>
    ELSE << >>

\* Lines 39-52: a connection is accepted, its write half goes into the stream
\* map and its read loop starts.  A peer address (host and ephemeral port)
\* connects once.
handle_incoming_connections(socket) ==
    /\ rx[socket] = "none"
    /\ stream_repository' = stream_repository \cup {socket}
    /\ rx' = [rx EXCEPT ![socket] = "decode"]
    /\ handled' = NoPacketHandled
    /\ UNCHANGED <<socket2id, id2socket, id2session, topic2subscribers,
                   broker2listener, call, task, listener2broker>>

\* Lines 97-124: one turn of the loop of handle_client.
handle_client(socket, outcome) ==
    /\ rx[socket] = "decode"
    /\ LET result == decode_packet(outcome)
           sent == handle_client_sent(socket, result)
       IN  /\ Len(listener2broker) + Len(sent) <= MaxInbound
           /\ listener2broker' = listener2broker \o sent
           /\ rx' = [rx EXCEPT ![socket] =
                         IF handle_client_break(result) THEN "exit" ELSE "decode"]
           /\ call' = [op |-> "handle_client", socket |-> socket,
                       client_id |-> "none", ret |-> {result}]
    /\ UNCHANGED <<socket2id, id2socket, id2session, topic2subscribers,
                   broker2listener, stream_repository, handled, task>>

\* broker.rs lines 29-40: the dispatcher takes the next packet from the queue
\* and spawns a task for it; t is a free task of the model.  earlier names
\* the tasks spawned before t that have not finished.
Broker_handle_packets(t) ==
    /\ listener2broker # << >>
    /\ task[t].pc = "idle"
    /\ task' = [task EXCEPT ![t] =
                    [pc |-> "process_message", op |-> "process_message",
                     socket |-> Head(listener2broker).socket,
                     client_id |-> "none",
                     packet |-> Head(listener2broker).packet,
                     earlier |-> {u \in Tasks : task[u].pc # "idle"}]]
    /\ listener2broker' = Tail(listener2broker)
    /\ UNCHANGED <<socket2id, id2socket, id2session, topic2subscribers,
                   broker2listener, stream_repository, handled, call, rx>>

\* The tasks once task t has ended: t is free again and keeps the packet it
\* handled, and is earlier than no task any more.
Broker_finished(t) ==
    [u \in Tasks |->
        IF u = t
        THEN [pc |-> "idle", op |-> "process_message", socket |-> task[t].socket,
              client_id |-> "none", packet |-> task[t].packet,
              earlier |-> task[t].earlier]
        ELSE IF task[u].op = "process_message"
             THEN [task[u] EXCEPT !.earlier = @ \ {t}]
             ELSE task[u]]

\* broker.rs lines 32-39: a spawned task runs process_message to its end.
Broker_task(t) ==
    /\ task[t].pc = "process_message"
    /\ Len(broker2listener) < MaxBacklog
    /\ PacketDispatcher_process_message(task[t].socket, task[t].packet)
    /\ task' = Broker_finished(t)

\* The read loop on its own: connections are accepted, send PINGREQ,
\* garbage and nothing, fail and are closed; the dispatcher answers no
\* PINGREQ of a client that never sent CONNECT.
RxPackets == PingreqPackets

NextRx ==
    \/ \E s \in Sockets : handle_incoming_connections(s)
    \/ \E s \in Sockets, o \in StreamOutcomes(RxPackets) : handle_client(s, o)
    \/ \E t \in Tasks : Broker_handle_packets(t)
    \/ \E t \in Tasks : Broker_task(t)

SpecRx == Init /\ [][NextRx]_vars

\* Connections that send CONNECT and are closed by the peer without a
\* DISCONNECT, in front of the dispatcher and the Tx stage.
RxClosePackets == {p \in TxConnectPackets : p.client_id = "c1"}

RxCloseOutcomes ==
    {o \in StreamOutcomes(RxClosePackets) :
        \/ o.at = "packet"
        \/ o.at = "first_byte" /\ o.kind = "UnexpectedEof"}

NextRxClose ==
    \/ \E s \in Sockets : handle_incoming_connections(s)
    \/ \E s \in Sockets, o \in RxCloseOutcomes : handle_client(s, o)
    \/ \E t \in Tasks : Broker_handle_packets(t)
    \/ \E t \in Tasks : Broker_task(t)
    \/ handle_outgoing_connections

SpecRxClose == Init /\ [][NextRxClose]_vars

\* The same with the scheduling of the tokio runtime: the dispatcher loop,
\* every spawned handler task and the Tx loop run when they can.  What the
\* peers do is left to them.
SpecRxCloseFair ==
    /\ SpecRxClose
    /\ WF_vars(\E t \in Tasks : Broker_handle_packets(t))
    /\ \A t \in Tasks : WF_vars(Broker_task(t))
    /\ WF_vars(handle_outgoing_connections)

\* ------------------------------------------------------------ CONNECT, step by step
\* connect_handler.rs process as the task of a CONNECT runs it: the calls on
\* the shared maps and the sends are steps of their own, between which other
\* tasks run.
\* Lines 29-40: the client is registered and the socket it had is sent a
\* DISCONNECT.
ConnectHandler_register(t) ==
    /\ task[t].pc = "process_message"
    /\ task[t].packet.packet_type = "CONNECT"
    /\ has_client_id(task[t].packet)
    /\ Len(broker2listener) < MaxBacklog
    /\ LET socket == task[t].socket
           client_id == task[t].packet.client_id
           previous_socket == register_previous_socket(id2socket, client_id)
       IN  /\ socket2id' = register_socket2id(socket2id, socket, client_id)
           /\ id2socket' = register_id2socket(id2socket, socket, client_id)
           /\ broker2listener' =
                  broker2listener
                  \o (IF previous_socket = {} THEN << >>
                      ELSE <<send_packet(the(previous_socket),
                                         disconnect("SessionTakenOver"))>>)
           /\ task' = [task EXCEPT ![t] =
                           [pc |-> IF task[t].packet.clean_start_flag
                                   THEN "register_clean_session"
                                   ELSE "contains_key",
                            op |-> "process_message", socket |-> socket,
                            client_id |-> client_id, packet |-> task[t].packet,
                            earlier |-> task[t].earlier,
                            session_present |-> FALSE]]
    /\ UNCHANGED <<id2session, topic2subscribers, stream_repository, handled,
                   call, listener2broker, rx>>

\* Lines 43-46: the clean session and the end of the subscriptions.
ConnectHandler_register_clean_session(t) ==
    /\ task[t].pc = "register_clean_session"
    /\ id2session' = register_clean_session(id2session, task[t].client_id)
    /\ topic2subscribers' = unsubscribe_all(topic2subscribers, task[t].client_id)
    /\ task' = [task EXCEPT ![t].pc = "connack"]
    /\ UNCHANGED <<socket2id, id2socket, broker2listener, stream_repository,
                   handled, call, listener2broker, rx>>

\* utils.rs register_session, lines 30-32: the session is looked for.
register_session_contains_key(t) ==
    /\ task[t].pc = "contains_key"
    /\ task' = IF task[t].client_id \in DOMAIN id2session
               THEN [task EXCEPT ![t].pc = "connack",
                                 ![t].session_present = TRUE]
               ELSE [task EXCEPT ![t].pc = "insert"]
    /\ UNCHANGED <<socket2id, id2socket, id2session, topic2subscribers,
                   broker2listener, stream_repository, handled, call,
                   listener2broker, rx>>

\* utils.rs register_session, lines 34-43: a new session is inserted; the
\* session the insert replaced, if any, is what call.ret holds.
register_session_insert(t) ==
    /\ task[t].pc = "insert"
    /\ id2session' = Insert(id2session, task[t].client_id, SessionHandler_new)
    /\ call' = [op |-> "register_session", socket |-> task[t].socket,
                client_id |-> task[t].client_id,
                ret |-> Lookup(id2session, task[t].client_id)]
    /\ task' = [task EXCEPT ![t].pc = "connack",
                            ![t].session_present =
                                task[t].client_id \in DOMAIN id2session]
    /\ UNCHANGED <<socket2id, id2socket, topic2subscribers, broker2listener,
                   stream_repository, handled, listener2broker, rx>>

\* Lines 53-59: the CONNACK is sent and the task ends.
ConnectHandler_connack(t) ==
    /\ task[t].pc = "connack"
    /\ Len(broker2listener) < MaxBacklog
    /\ LET sent == <<send_packet(task[t].socket,
                                 connack(task[t].session_present))>>
       IN  /\ broker2listener' = broker2listener \o sent
           /\ handled' = [socket |-> task[t].socket, packet |-> task[t].packet,
                          client_id |-> {task[t].client_id}, result |-> "Ok",
                          sent |-> sent]
    /\ task' = Broker_finished(t)
    /\ UNCHANGED <<socket2id, id2socket, id2session, topic2subscribers,
                   stream_repository, call, listener2broker, rx>>

\* Lines 101-112 of rx_connection_handler.rs: the read loop of a connection
\* sends a packet it decoded to the dispatcher.
RxClientHandler_send(socket, control_packet) ==
    /\ Len(listener2broker) < MaxInbound
    /\ listener2broker' =
           listener2broker \o <<[socket |-> socket, packet |-> control_packet]>>
    /\ UNCHANGED <<socket2id, id2socket, id2session, topic2subscribers,
                   broker2listener, stream_repository, handled, call, task, rx>>

\* The dispatcher as it runs: a task per packet, CONNECT step by step and the
\* other handlers in one step each, for clients that name themselves c1,
\* subscribe and publish at QoS 0, in front of the Tx stage.
BrokerConnectPackets == {p \in NamedConnectPackets : p.client_id = "c1"}

BrokerSubscribePackets ==
    {p \in SubscribePackets :
        \A i \in DOMAIN p.topic_filters :
            p.topic_filters[i].maximum_qos = "AtMostOnce"}

BrokerSockets == {"s1"}

NextBroker ==
    \/ \E s \in BrokerSockets, p \in BrokerConnectPackets :
           RxClientHandler_send(s, p)
    \/ \E s \in BrokerSockets, p \in BrokerSubscribePackets :
           RxClientHandler_send(s, p)
    \/ \E s \in BrokerSockets, p \in TxPublishPackets :
           RxClientHandler_send(s, p)
    \/ \E t \in Tasks : Broker_handle_packets(t)
    \/ \E t \in Tasks : ConnectHandler_register(t)
    \/ \E t \in Tasks : ConnectHandler_register_clean_session(t)
    \/ \E t \in Tasks : register_session_contains_key(t)
    \/ \E t \in Tasks : register_session_insert(t)
    \/ \E t \in Tasks : ConnectHandler_connack(t)
    \/ \E t \in Tasks : /\ task[t].pc = "process_message"
                        /\ task[t].packet.packet_type # "CONNECT"
                        /\ Broker_task(t)
    \/ handle_outgoing_connections

SpecBroker == Init /\ [][NextBroker]_vars

\* ------------------------------------------------------------ Tx, task by task
\* tx_connection_handler.rs lines 35-42: the Tx loop takes the next message
\* from the queue and spawns a task for it; t is a free task of the model.
\* earlier names the tasks spawned before t that have not finished.
handle_outgoing_connections_spawn(t) ==
    /\ broker2listener # << >>
    /\ task[t].pc = "idle"
    /\ task' = [task EXCEPT ![t] =
                    [pc |-> "tx", op |-> "handle_outgoing_connections",
                     socket |-> "none", client_id |-> "none",
                     sockets |-> Head(broker2listener).sockets,
                     packet |-> Head(broker2listener).packet,
                     earlier |-> {u \in Tasks : task[u].pc = "tx"}]]
    /\ broker2listener' = Tail(broker2listener)
    /\ handled' = NoPacketHandled
    /\ UNCHANGED <<socket2id, id2socket, id2session, topic2subscribers,
                   stream_repository, call, listener2broker, rx>>

\* Lines 47-75: the task of a message spawns one task per recipient; this is
\* the task of recipient number i, which cleans up after a DISCONNECT and
\* writes any other packet.  pending lists the packets of earlier messages
\* whose task for the same recipient has not run yet.
TxTask(t, i) ==
    /\ task[t].pc = "tx"
    /\ i \in DOMAIN task[t].sockets
    /\ LET socket == task[t].sockets[i]
           packet == task[t].packet
           st == [socket2id |-> socket2id, id2socket |-> id2socket,
                  topic2subscribers |-> topic2subscribers,
                  stream_repository |-> stream_repository]
           after == IF is_disconnection(packet)
                    THEN clean_after_disconnection(st, socket)
                    ELSE st
           events == IF is_disconnection(packet)
                     THEN clean_after_disconnection_shutdown(socket,
                              stream_repository)
                     ELSE TxClientHandler_send_packet(socket, stream_repository,
                                                      {})
           remaining == SubSeq(task[t].sockets, 1, i - 1)
                        \o SubSeq(task[t].sockets, i + 1, Len(task[t].sockets))
       IN  /\ socket2id' = after.socket2id
           /\ id2socket' = after.id2socket
           /\ topic2subscribers' = after.topic2subscribers
           /\ stream_repository' = after.stream_repository
           /\ call' = [op |-> "TxTask", socket |-> socket, client_id |-> "none",
                       ret |-> {}, packet |-> packet, events |-> events,
                       pending |-> {task[u].packet :
                                       u \in {v \in task[t].earlier :
                                                 socket \in Members(task[v].sockets)}}]
           /\ task' = IF remaining # << >>
                      THEN [task EXCEPT ![t].sockets = remaining]
                      ELSE [u \in Tasks |->
                               IF u = t THEN NoTask
                               ELSE IF task[u].pc = "tx"
                                    THEN [task[u] EXCEPT !.earlier = @ \ {t}]
                                    ELSE task[u]]
    /\ handled' = NoPacketHandled
    /\ UNCHANGED <<id2session, broker2listener, listener2broker, rx>>

\* The Tx stage behind handlers that answer accepted connections with
\* PINGRESP and DISCONNECT.
TxTaskPackets == {pingresp, disconnect("NormalDisconnection")}

NextTxTasks ==
    \/ \E s \in Sockets : Accept(s)
    \/ \E sockets \in RecipientLists, p \in TxTaskPackets : SendPackets(sockets, p)
    \/ \E t \in Tasks : handle_outgoing_connections_spawn(t)
    \/ \E t \in Tasks, i \in 1..Cardinality(Sockets) : TxTask(t, i)

SpecTxTasks == Init /\ [][NextTxTasks]_vars

\* ------------------------------------------------------------ topic actor
\* src/src/topic/topic_handler.rs: one task owns a
\* HashMap<String, HashSet<String>> and handles the TopicCommands it receives
\* one at a time.  topic2subscribers maps a topic filter to a set here.
ActorTopics == {"t1", "t2"}

TopicCommands ==
         [command : {"Subscribe", "Unsubscribe"}, client_id : ClientIds,
          topic_filter : ActorTopics]
    \cup [command : {"UnsubscribeAll"}, client_id : ClientIds,
          topic_filter : {"none"}]
    \cup [command : {"FindSubscribers"}, client_id : {"none"},
          topic_filter : ActorTopics]

\* a variant of Subscribe that takes a member it finds out of the set
handle_topics_Subscribe_toggle(subscribers, client_id, topic_filter) ==
    IF topic_filter \in DOMAIN subscribers
    THEN [subscribers EXCEPT ![topic_filter] =
              IF client_id \in @ THEN @ \ {client_id} ELSE @ \cup {client_id}]
    ELSE Insert(subscribers, topic_filter, {client_id})

\* lines 43-57: HashSet::insert into the filter's set, or a new set
handle_topics_Subscribe(subscribers, client_id, topic_filter) ==
    IF topic_filter \in DOMAIN subscribers
    THEN [subscribers EXCEPT ![topic_filter] = @ \cup {client_id}]
    ELSE Insert(subscribers, topic_filter, {client_id})

\* lines 58-64: the set is taken out, the client retained away, and the set,
\* empty or not, put back
handle_topics_Unsubscribe(subscribers, client_id, topic_filter) ==
    IF topic_filter \in DOMAIN subscribers
    THEN Insert(Remove(subscribers, topic_filter), topic_filter,
                subscribers[topic_filter] \ {client_id})
    ELSE subscribers

\* a variant of UnsubscribeAll that stops after the first entry it visits
handle_topics_UnsubscribeAll_first(subscribers, client_id) ==
    IF DOMAIN subscribers = {}
    THEN subscribers
    ELSE LET first == CHOOSE f \in DOMAIN subscribers : TRUE
         IN  [subscribers EXCEPT ![first] = @ \ {client_id}]

\* lines 65-70
handle_topics_UnsubscribeAll(subscribers, client_id) ==
    [f \in DOMAIN subscribers |-> subscribers[f] \ {client_id}]

\* lines 71-82: the Vec sent to the callback holds the set's members, each
\* once, in the set's iteration order, which HashSet leaves open: the value
\* is the set of the Vecs the callback can receive.
handle_topics_FindSubscribers(subscribers, topic_filter) ==
    IF topic_filter \in DOMAIN subscribers
    THEN LET set == subscribers[topic_filter]
         IN  {v \in [1..Cardinality(set) -> set] :
                 \A i, j \in 1..Cardinality(set) : v[i] = v[j] => i = j}
    ELSE {<< >>}

\* One pass of the loop of handle_topics, lines 36-86: a received command is
\* handled to the end before the next one is taken.
handle_topics(topic_command) ==
    /\ topic2subscribers' =
           CASE topic_command.command = "Subscribe" ->
                    handle_topics_Subscribe(topic2subscribers,
                        topic_command.client_id, topic_command.topic_filter)
             [] topic_command.command = "Unsubscribe" ->
                    handle_topics_Unsubscribe(topic2subscribers,
                        topic_command.client_id, topic_command.topic_filter)
             [] topic_command.command = "UnsubscribeAll" ->
                    handle_topics_UnsubscribeAll(topic2subscribers,
                        topic_command.client_id)
             [] topic_command.command = "FindSubscribers" -> topic2subscribers
    /\ call' = [op |-> topic_command.command, socket |-> "none",
                client_id |-> topic_command.client_id,
                topic_filter |-> topic_command.topic_filter,
                ret |-> IF topic_command.command = "FindSubscribers"
                        THEN handle_topics_FindSubscribers(topic2subscribers,
                                 topic_command.topic_filter)
                        ELSE {},
                member_of |-> {f \in DOMAIN topic2subscribers :
                                 topic_command.client_id \in topic2subscribers[f]},
                repeated |-> /\ call.op = topic_command.command
                             /\ call.client_id = topic_command.client_id
                             /\ call.topic_filter = topic_command.topic_filter]
    /\ UNCHANGED <<socket2id, id2socket, id2session, broker2listener,
                   stream_repository, handled, task,
                   listener2broker, rx>>

NextTopicActor == \E topic_command \in TopicCommands : handle_topics(topic_command)

SpecTopicActor == Init /\ [][NextTopicActor]_vars

\* ------------------------------------------------------------ topic registry
\* src/src/topic_handler.rs: a global DashMap<String, Vec<String>> that any
\* task may call into.  Each DashMap operation is one step and takes the lock
\* of its key's shard; topic2subscribers maps a topic filter to a sequence
\* here.  The filters of the model lie in different shards.
RegistryTopics == {"t1", "t2"}

\* add_subscriber, line 44: the Option<RefMut> bound to `subscribers` lives to
\* the end of the function.  When the filter has an entry, it is the write
\* guard of the entry's shard, and line 46's contains_key waits for that lock:
\* the task waits for itself and keeps the shard locked.
Locked(topic_filter) ==
    \E t \in Tasks : /\ task[t].pc = "add_subscriber_contains_key"
                     /\ task[t].topic_filter = topic_filter
                     /\ task[t].guard

\* add_subscriber, lines 48-49: get_mut(topic_filter).unwrap().push(client_id)
add_subscriber_push(subscribers, client_id, topic_filter) ==
    [subscribers EXCEPT ![topic_filter] = Append(@, client_id)]

\* add_subscriber, line 52: insert(topic_filter, vec![client_id])
add_subscriber_insert(subscribers, client_id, topic_filter) ==
    Insert(subscribers, topic_filter, <<client_id>>)

\* a variant of retain that drops the first occurrence only
retain_first(list, client_id) ==
    IF \E i \in DOMAIN list : list[i] = client_id
    THEN LET first == CHOOSE i \in DOMAIN list :
                          /\ list[i] = client_id
                          /\ \A j \in 1..(i - 1) : list[j] # client_id
         IN  SubSeq(list, 1, first - 1) \o SubSeq(list, first + 1, Len(list))
    ELSE list

\* remove_subscriber, line 64, and remove_all_subscriptions, line 73:
\* retain(|subscriber| subscriber != client_id)
retain(list, client_id) == SelectSeq(list, LAMBDA subscriber : subscriber # client_id)

RegistryCall(op, client_id, topic_filter, ret) ==
    [op |-> op, socket |-> "none", client_id |-> client_id,
     topic_filter |-> topic_filter, ret |-> ret]

RegistryUnchanged ==
    UNCHANGED <<socket2id, id2socket, id2session, broker2listener,
                stream_repository, handled,
                   listener2broker, rx>>

\* add_subscriber, line 44: get_mut(topic_filter)
AddSubscriberGetMut(t, client_id, topic_filter) ==
    /\ task[t].pc = "idle"
    /\ ~Locked(topic_filter)
    /\ task' = [task EXCEPT ![t] =
                    [pc |-> "add_subscriber_contains_key", op |-> "add_subscriber",
                     socket |-> "none", client_id |-> client_id,
                     topic_filter |-> topic_filter,
                     guard |-> topic_filter \in DOMAIN topic2subscribers]]
    /\ UNCHANGED <<topic2subscribers, call>>
    /\ RegistryUnchanged

\* add_subscriber, line 46: contains_key(topic_filter)
AddSubscriberContainsKey(t) ==
    /\ task[t].pc = "add_subscriber_contains_key"
    /\ ~Locked(task[t].topic_filter)
    /\ task' = [task EXCEPT ![t].pc =
                    IF task[t].topic_filter \in DOMAIN topic2subscribers
                    THEN "add_subscriber_push" ELSE "add_subscriber_insert"]
    /\ UNCHANGED <<topic2subscribers, call>>
    /\ RegistryUnchanged

\* add_subscriber, lines 47-50 (no operation removes an entry, so the unwrap
\* finds one)
AddSubscriberPush(t) ==
    /\ task[t].pc = "add_subscriber_push"
    /\ ~Locked(task[t].topic_filter)
    /\ topic2subscribers' = add_subscriber_push(topic2subscribers,
                                task[t].client_id, task[t].topic_filter)
    /\ call' = RegistryCall("add_subscriber", task[t].client_id,
                            task[t].topic_filter, {})
    /\ task' = [task EXCEPT ![t] = NoTask]
    /\ RegistryUnchanged

\* add_subscriber, lines 51-53
AddSubscriberInsert(t) ==
    /\ task[t].pc = "add_subscriber_insert"
    /\ ~Locked(task[t].topic_filter)
    /\ topic2subscribers' = add_subscriber_insert(topic2subscribers,
                                task[t].client_id, task[t].topic_filter)
    /\ call' = RegistryCall("add_subscriber", task[t].client_id,
                            task[t].topic_filter, {})
    /\ task' = [task EXCEPT ![t] = NoTask]
    /\ RegistryUnchanged

\* remove_subscriber, lines 58-67: the retain runs under the guard get_mut
\* returned
remove_subscriber(client_id, topic_filter) ==
    /\ ~Locked(topic_filter)
    /\ topic2subscribers' =
           IF topic_filter \in DOMAIN topic2subscribers
           THEN [topic2subscribers EXCEPT ![topic_filter] = retain(@, client_id)]
           ELSE topic2subscribers
    /\ call' = RegistryCall("remove_subscriber", client_id, topic_filter, {})
    /\ UNCHANGED task
    /\ RegistryUnchanged

\* remove_all_subscriptions, lines 69-76: alter_all visits the shards one
\* after the other, in an order the model leaves open
RemoveAllSubscriptions(t, client_id) ==
    /\ task[t].pc = "idle"
    /\ task' = [task EXCEPT ![t] =
                    [pc |-> "remove_all_subscriptions_alter_all",
                     op |-> "remove_all_subscriptions", socket |-> "none",
                     client_id |-> client_id, shards |-> RegistryTopics,
                     before |-> topic2subscribers]]
    /\ UNCHANGED <<topic2subscribers, call>>
    /\ RegistryUnchanged

\* alter_all, one shard: lines 72-75 for the entry in it, if there is one
AlterShard(t, topic_filter) ==
    /\ task[t].pc = "remove_all_subscriptions_alter_all"
    /\ topic_filter \in task[t].shards
    /\ ~Locked(topic_filter)
    /\ topic2subscribers' =
           IF topic_filter \in DOMAIN topic2subscribers
           THEN [topic2subscribers EXCEPT ![topic_filter] =
                    retain(@, task[t].client_id)]
           ELSE topic2subscribers
    /\ IF task[t].shards = {topic_filter}
       THEN /\ task' = [task EXCEPT ![t] = NoTask]
            /\ call' = RegistryCall("remove_all_subscriptions",
                                    task[t].client_id, "none", {})
       ELSE /\ task' = [task EXCEPT ![t].shards = @ \ {topic_filter}]
            /\ UNCHANGED call
    /\ RegistryUnchanged

\* One whole call of find_subscribers, lines 31-39.
FindSubscribers(topic_path) ==
    /\ ~Locked(topic_path)
    /\ call' = RegistryCall("find_subscribers", "none", topic_path,
                            find_subscribers(topic_path))
    /\ UNCHANGED <<topic2subscribers, task>>
    /\ RegistryUnchanged

NextTopicRegistry ==
    \/ \E t \in Tasks, c \in ClientIds, f \in RegistryTopics :
           AddSubscriberGetMut(t, c, f)
    \/ \E t \in Tasks : AddSubscriberContainsKey(t)
    \/ \E t \in Tasks : AddSubscriberPush(t)
    \/ \E t \in Tasks : AddSubscriberInsert(t)
    \/ \E c \in ClientIds, f \in RegistryTopics : remove_subscriber(c, f)
    \/ \E t \in Tasks, c \in ClientIds : RemoveAllSubscriptions(t, c)
    \/ \E t \in Tasks, f \in RegistryTopics : AlterShard(t, f)
    \/ \E f \in RegistryTopics : FindSubscribers(f)

SpecTopicRegistry == Init /\ [][NextTopicRegistry]_vars

\* One remove_all_subscriptions call at a time against find_subscribers
\* calls, from any registry content.  MaxSubscribers bounds the lists the
\* registry starts with; add_subscriber puts no bound on them.
MaxSubscribers == 2

SubscriberVecs == UNION {[1..n -> ClientIds] : n \in 0..MaxSubscribers}

InitTopicRegistryContent ==
    /\ socket2id = EmptyMap
    /\ id2socket = EmptyMap
    /\ id2session = EmptyMap
    /\ topic2subscribers \in
           UNION {[present -> SubscriberVecs] : present \in SUBSET RegistryTopics}
    /\ broker2listener = << >>
    /\ stream_repository = {}
    /\ handled = NoPacketHandled
    /\ call = NoCall
    /\ task = [t \in Tasks |-> NoTask]
    /\ listener2broker = << >>
    /\ rx = [socket \in Sockets |-> "none"]

NextRemoveAllSubscriptions ==
    \/ \E t \in Tasks, c \in ClientIds :
           /\ \A u \in Tasks : task[u].pc = "idle"
           /\ RemoveAllSubscriptions(t, c)
    \/ \E t \in Tasks, f \in RegistryTopics : AlterShard(t, f)
    \/ \E f \in RegistryTopics : FindSubscribers(f)

SpecRemoveAllSubscriptions ==
    InitTopicRegistryContent /\ [][NextRemoveAllSubscriptions]_vars

\* ------------------------------------------------------------ codec
\* src/src/serdes: a buffer is a sequence of bytes (0..255); the BitReader of
\* the decoders reads bits from the most significant bit of the first byte.
\* The base-128 digits the variable byte integers of the model are made of.
VbiDigits == {0, 1, 64, 127}

VariableByteIntegers ==
    {d1 + 128 * d2 + 16384 * d3 + 2097152 * d4 :
        d1 \in VbiDigits, d2 \in VbiDigits, d3 \in VbiDigits, d4 \in VbiDigits}

\* bit i (0 is the least significant) of a byte
Bit(byte, i) == (byte \div (2 ^ i)) % 2

\* a | b on bytes
BitOr(a, b) ==
    LET or[i \in 0..8] ==
            IF i = 8 THEN 0
            ELSE (IF Bit(a, i) = 1 \/ Bit(b, i) = 1 THEN 2 ^ i ELSE 0) + or[i + 1]
    IN  or[0]

\* (if flag { 1 } else { 0 } << bit_pos)
Shifted(flag, bit_pos) == IF flag THEN 2 ^ bit_pos ELSE 0

\* encoder.rs lines 35-53
RECURSIVE write_variable_byte_integer(_)
write_variable_byte_integer(value) ==
    LET encoded_byte == value % 128
        rest == value \div 128
    IN  IF rest > 0
        THEN <<BitOr(encoded_byte, 128)>> \o write_variable_byte_integer(rest)
        ELSE <<encoded_byte>>

\* a variant of the limit of read_variable_byte_integer that is reached one
\* byte earlier
read_variable_byte_integer_exceeded_early(multiplier) ==
    multiplier >= 128 * 128 * 128

\* decoder.rs line 99
read_variable_byte_integer_exceeded(multiplier) == multiplier > 128 * 128 * 128

\* decoder.rs lines 89-109: the loop, with the bytes still to read
RECURSIVE read_variable_byte_integer_loop(_, _, _)
read_variable_byte_integer_loop(bytes, multiplier, result) ==
    IF bytes = << >> THEN {}
    ELSE LET encoded_byte == Head(bytes)
             sum == result + (encoded_byte % 128) * multiplier
         IN  IF read_variable_byte_integer_exceeded(multiplier) THEN {}
             ELSE IF Bit(encoded_byte, 7) = 0 THEN {sum}
             ELSE read_variable_byte_integer_loop(Tail(bytes), multiplier * 128,
                                                  sum)

\* decoder.rs lines 85-112: Ok(result) is {result}, Err is {}
read_variable_byte_integer(bytes) == read_variable_byte_integer_loop(bytes, 1, 0)

\* BitReader::read_u8(bit_count) at a bit position of the buffer
read_u8(buffer, position, bit_count) ==
    IF position + bit_count > 8 * Len(buffer) THEN {}
    ELSE LET bit(k) == Bit(buffer[(k \div 8) + 1], 7 - (k % 8))
             value[i \in 0..bit_count] ==
                 IF i = bit_count THEN 0
                 ELSE bit(position + i) * (2 ^ (bit_count - 1 - i)) + value[i + 1]
         IN  {value[0]}

\* fixed_header.rs lines 103-122
ControlPacketTypes ==
    <<"RESERVED", "CONNECT", "CONNACK", "PUBLISH", "PUBACK", "PUBREC", "PUBREL",
      "PUBCOMP", "SUBSCRIBE", "SUBACK", "UNSUBSCRIBE", "UNSUBACK", "PINGREQ",
      "PINGRESP", "DISCONNECT", "AUTH">>

ControlPacketType_as_u8(packet_type) ==
    16 * ((CHOOSE i \in DOMAIN ControlPacketTypes :
               ControlPacketTypes[i] = packet_type) - 1)

\* fixed_header.rs lines 124-145
ControlPacketType_from_u8(value) ==
    IF value \in 0..15 THEN {ControlPacketTypes[value + 1]} ELSE {}

\* qos_level.rs lines 11-26
QoSLevel_from_u8(value) ==
    CASE value = 0 -> {"AtMostOnce"}
      [] value = 1 -> {"AtLeastOnce"}
      [] value = 2 -> {"ExactlyOnce"}
      [] OTHER -> {}

\* qos_level.rs lines 28-34
QoSLevel_to_bool(qos_level) ==
    CASE qos_level = "AtMostOnce" -> <<FALSE, FALSE>>
      [] qos_level = "AtLeastOnce" -> <<FALSE, TRUE>>
      [] qos_level = "ExactlyOnce" -> <<TRUE, FALSE>>

\* reason_code.rs lines 55-100, for the reason codes of the model
ReasonCode_as_u8(reason_code) ==
    CASE reason_code = "Success" -> 0
      [] reason_code = "NormalDisconnection" -> 0
      [] reason_code = "GrantedQoS0" -> 0
      [] reason_code = "UnspecifiedError" -> 128
      [] reason_code = "SessionTakenOver" -> 142

\* fixed_header_encoder.rs lines 47-55
encode_publish_flags(first_byte, dup_flag, qos_level, retain_flag) ==
    LET qos_flags == QoSLevel_to_bool(qos_level)
        b0 == BitOr(Shifted(dup_flag, 0), first_byte)
        b1 == BitOr(Shifted(qos_flags[2], 1), b0)
        b2 == BitOr(Shifted(qos_flags[1], 2), b1)
    IN  BitOr(Shifted(retain_flag, 3), b2)

\* fixed_header_encoder.rs lines 32-45: the loop runs over the first three
\* flags (0..len - 1), flag i into bit i
encode_control_flags(first_byte, control_flags) ==
    IF Len(control_flags) # 4 THEN {}
    ELSE LET or[i \in 0..3] ==
                 IF i = 3 THEN first_byte
                 ELSE BitOr(Shifted(control_flags[i + 1], i), or[i + 1])
         IN  {or[0]}

\* fixed_header_encoder.rs lines 61-82 (the internal buffer holds the same
\* bytes when calculate_length has run before)
FixedHeaderEncoder_encode(fixed_header, remaining_length) ==
    LET first_byte == ControlPacketType_as_u8(fixed_header.packet_type)
        flagged == IF fixed_header.packet_type = "PUBLISH"
                   THEN {encode_publish_flags(first_byte, fixed_header.dup_flag,
                             fixed_header.qos_level, fixed_header.retain)}
                   ELSE encode_control_flags(first_byte,
                                             fixed_header.control_flags)
    IN  {<<b>> \o write_variable_byte_integer(remaining_length) : b \in flagged}

\* fixed_header_decoder.rs lines 137-178
FixedHeaderDecoder_decode(buffer) ==
    LET packet_type == UNION {ControlPacketType_from_u8(raw) :
                                 raw \in read_u8(buffer, 0, 4)}
        remaining_length == IF buffer = << >> THEN {}
                            ELSE read_variable_byte_integer(Tail(buffer))
    IN  IF packet_type = {"PUBLISH"}
        THEN LET qos_level == UNION {QoSLevel_from_u8(raw) :
                                        raw \in read_u8(buffer, 5, 2)}
             IN  {[packet_type |-> "PUBLISH", dup_flag |-> dup = 1,
                   qos_level |-> q, retain |-> r = 1, remaining_length |-> l] :
                     dup \in read_u8(buffer, 4, 1), q \in qos_level,
                     r \in read_u8(buffer, 7, 1), l \in remaining_length}
        ELSE {[packet_type |-> pt,
               control_flags |-> [i \in 1..4 |-> Bit(buffer[1], 4 - i) = 1],
               remaining_length |-> l] :
                 pt \in packet_type, l \in remaining_length}

\* variable_header_encoder.rs lines 52-113, for the packet types of the model
\* that encode_packet is applied to: the arms of DISCONNECT and PINGRESP are
\* empty
VariableHeaderEncoder_encode(packet_type, variable_header) ==
    CASE packet_type = "DISCONNECT" -> << >>
      [] packet_type = "PINGRESP" -> << >>

\* control_packet.rs lines 128-138: the fixed header, whether there is a
\* variable header, and no payload
ControlPacket_fixed_header(packet) ==
    [packet_type |-> packet.packet_type,
     control_flags |-> <<FALSE, FALSE, FALSE, FALSE>>]

ControlPacket_variable_header_opt(packet) ==
    IF packet.packet_type = "DISCONNECT"
    THEN {[reason_code |-> packet.reason_code, properties |-> << >>]}
    ELSE {}

\* mqtt_encoder.rs lines 48-82, for packets without payload
encode_packet(packet) ==
    LET variable_header ==
            IF ControlPacket_variable_header_opt(packet) = {} THEN << >>
            ELSE VariableHeaderEncoder_encode(packet.packet_type,
                     the(ControlPacket_variable_header_opt(packet)))
        calculated_remaining_length == Len(variable_header)
    IN  {fixed_header \o variable_header :
            fixed_header \in FixedHeaderEncoder_encode(
                                 ControlPacket_fixed_header(packet),
                                 calculated_remaining_length)}

PublishFixedHeaders ==
    [packet_type : {"PUBLISH"}, dup_flag : BOOLEAN, qos_level : QoSLevels,
     retain : BOOLEAN]

ControlFixedHeaders ==
    [packet_type : {"CONNACK", "PUBREL", "DISCONNECT"},
     control_flags : [1..4 -> BOOLEAN]]

RemainingLengths == {0, 2, 128}

EncodedPackets ==
    {disconnect(r) : r \in {"NormalDisconnection", "SessionTakenOver",
                            "UnspecifiedError"}} \cup {pingresp}

CodecCall(op, input, buffer, ret) ==
    /\ call' = [op |-> op, socket |-> "none", client_id |-> "none",
                input |-> input, buffer |-> buffer, ret |-> ret]
    /\ UNCHANGED <<socket2id, id2socket, id2session, topic2subscribers,
                   broker2listener, stream_repository, handled, task,
                   listener2broker, rx>>

WriteVariableByteInteger(value) ==
    CodecCall("write_variable_byte_integer", value,
              write_variable_byte_integer(value), {})

\* tests/mod.rs lines 14-27: the written buffer is read back
ReadVariableByteInteger ==
    /\ call.op = "write_variable_byte_integer"
    /\ CodecCall("read_variable_byte_integer", call.input, call.buffer,
                 read_variable_byte_integer(call.buffer))

EncodeFixedHeader(fixed_header, remaining_length) ==
    /\ FixedHeaderEncoder_encode(fixed_header, remaining_length) # {}
    /\ CodecCall("FixedHeaderEncoder::encode",
                 [fixed_header |-> fixed_header,
                  remaining_length |-> remaining_length],
                 the(FixedHeaderEncoder_encode(fixed_header, remaining_length)),
                 {})

DecodeFixedHeader ==
    /\ call.op = "FixedHeaderEncoder::encode"
    /\ CodecCall("FixedHeaderDecoder::decode", call.input, call.buffer,
                 FixedHeaderDecoder_decode(call.buffer))

EncodePacket(packet) ==
    /\ encode_packet(packet) # {}
    /\ CodecCall("encode_packet", packet, the(encode_packet(packet)), {})

NextCodec ==
    \/ \E value \in VariableByteIntegers : WriteVariableByteInteger(value)
    \/ ReadVariableByteInteger
    \/ \E fixed_header \in PublishFixedHeaders \cup ControlFixedHeaders,
          remaining_length \in RemainingLengths :
           EncodeFixedHeader(fixed_header, remaining_length)
    \/ DecodeFixedHeader
    \/ \E packet \in EncodedPackets : EncodePacket(packet)

SpecCodec == Init /\ [][NextCodec]_vars

\* ------------------------------------------------------------ claims C1-C4

\* C1: after any sequence of register, unregister and unregister_by_socket
\* calls the two maps are mutually consistent: socket2id maps s to c if and
\* only if id2socket maps c to s.
C1_MapsMutuallyConsistent ==
    /\ \A s \in DOMAIN socket2id : get_socket(socket2id[s]) = {s}
    /\ \A c \in DOMAIN id2socket : get_client_id(id2socket[c]) = {c}

\* C2: right after register(s, c) returns, get_client_id(s) gives c and
\* get_socket(c) gives s; right after unregister(s, c) returns, both fail.
C2_LookupAfterRegisterUnregister ==
    /\ call.op = "register" =>
          /\ get_client_id(call.socket) = {call.client_id}
          /\ get_socket(call.client_id) = {call.socket}
    /\ call.op = "unregister" =>
          /\ get_client_id(call.socket) = {}
          /\ get_socket(call.client_id) = {}

\* C2's case: an unregister of a registered pair has returned while another
\* binding is still held.
C2_Witness ==
    /\ call.op = "unregister"
    /\ DOMAIN id2socket # {}

\* C3: register(s, c) is atomic: while a register(s, c) is in progress no
\* observer sees socket2id[s] = c with id2socket[c] not yet s.
C3_RegisterAtomic ==
    \A t \in Tasks :
        task[t].pc = "register_id2socket" =>
            ~ ( /\ get_client_id(task[t].socket) = {task[t].client_id}
                /\ get_socket(task[t].client_id) # {task[t].socket} )

\* C4: right after unregister_by_socket(s) returns, s is unbound; if s was
\* bound to c the call returned c and get_socket(c) fails; if s was unbound
\* the call returned nothing.
C4_UnregisterBySocket ==
    call.op = "unregister_by_socket" =>
        /\ get_client_id(call.socket) = {}
        /\ call.client_id # "none" =>
              /\ get_socket(call.client_id) = {}
              /\ call.ret = {call.client_id}
        /\ call.client_id = "none" => call.ret = {}

\* C4's case: unregister_by_socket has just unbound a bound socket.
C4_Witness ==
    /\ call.op = "unregister_by_socket"
    /\ call.ret # {}

\* ------------------------------------------------------------ claims C5-C10

\* C5: when a CONNECT for client id C is handled on socket S2 while C is
\* bound to a different socket S1, the dispatcher enqueues a
\* DISCONNECT(SessionTakenOver) addressed to S1, and enqueues it before the
\* CONNACK addressed to S2.
C5_TakeoverDisconnectBeforeConnack ==
    [][\A s1 \in Sockets, s2 \in Sockets, p \in ConnectPackets :
          ( /\ s1 # s2
            /\ has_client_id(p)
            /\ get_socket(p.client_id) = {s1}
            /\ process_message(s2, p) )
          => \E i \in 1..Len(Enqueued) : \E j \in (i + 1)..Len(Enqueued) :
                /\ Enqueued[i].sockets = <<s1>>
                /\ Enqueued[i].packet.packet_type = "DISCONNECT"
                /\ Enqueued[i].packet.reason_code = "SessionTakenOver"
                /\ Enqueued[j].sockets = <<s2>>
                /\ Enqueued[j].packet.packet_type = "CONNACK"]_vars

\* C5's case: a CONNECT has just taken a client id over from another socket.
C5_Witness ==
    /\ handled.packet.packet_type = "CONNECT"
    /\ Len(handled.sent) = 2
    /\ handled.sent[1].sockets # <<handled.socket>>
    /\ broker2listener = handled.sent

C7_CleanStartFresh ==
    (handled.packet.packet_type = "CONNECT" /\ handled.packet.clean_start_flag)
    => LET c == the(handled.client_id)
       IN  /\ Lookup(id2session, c) = {SessionHandler_new}
           /\ \A topic \in Topics : c \notin Members(find_subscribers(topic))

\* C7's case: the only client there has been has just connected with clean
\* start, and the topic it had subscribed to is left without subscribers.
C7_Witness ==
    /\ handled.packet.packet_type = "CONNECT"
    /\ handled.packet.clean_start_flag
    /\ DOMAIN id2session = handled.client_id
    /\ \E topic \in DOMAIN topic2subscribers : topic2subscribers[topic] = << >>

C9_PublishAcknowledged ==
    [][\A s \in Sockets, p \in PublishPackets :
          (get_client_id(s) # {} /\ process_message(s, p))
          => LET acks == SelectSeq(Enqueued,
                             LAMBDA m : m.packet.packet_type \in {"PUBACK", "PUBREC"})
             IN  IF p.qos_level = "AtMostOnce" THEN acks = << >>
                 ELSE /\ Len(acks) = 1
                      /\ acks[1].sockets = <<s>>
                      /\ acks[1].packet.packet_identifier = p.packet_identifier
                      /\ acks[1].packet.packet_type =
                            (IF p.qos_level = "AtLeastOnce" THEN "PUBACK"
                             ELSE "PUBREC")]_vars

\* C9's case: a QoS 1 PUBLISH has been acknowledged to its sender and
\* forwarded to a subscriber.
C9_Witness ==
    /\ handled.packet.packet_type = "PUBLISH"
    /\ handled.packet.qos_level = "AtLeastOnce"
    /\ Len(handled.sent) = 2
    /\ handled.sent[1].sockets = <<handled.socket>>
    /\ handled.sent[2].sockets # << >>

\* C10: the recipient list of a forwarded PUBLISH is exactly the sockets
\* currently registered for the client ids find_subscribers(topic_name)
\* returns, minus the sending socket.
C10_RecipientsWithoutSender ==
    [][\A s \in Sockets, p \in PublishPackets :
          (get_client_id(s) # {} /\ process_message(s, p))
          => LET forwarded == SelectSeq(Enqueued,
                                  LAMBDA m : m.packet.packet_type = "PUBLISH")
                 subscribers == Members(find_subscribers(p.topic_name))
             IN  /\ Len(forwarded) = 1
                 /\ forwarded[1].packet = p
                 /\ Members(forwarded[1].sockets) =
                        {id2socket[c] : c \in subscribers \cap DOMAIN id2socket}
                        \ {s}]_vars

\* C10's case: a publisher subscribed to the topic has published and the
\* PUBLISH has been forwarded to another subscriber.
C10_Witness ==
    /\ handled.packet.packet_type = "PUBLISH"
    /\ handled.result = "Ok"
    /\ handled.client_id \subseteq
           Members(find_subscribers(handled.packet.topic_name))
    /\ get_socket(the(handled.client_id)) = {handled.socket}
    /\ handled.sent[Len(handled.sent)].sockets # << >>

\* ------------------------------------------------------------ claims C11-C20

\* C11: for a QoS 1 or QoS 2 PUBLISH the acknowledgment (PUBACK or PUBREC)
\* to the publisher is placed on the dispatcher-to-Tx queue before the
\* fan-out PUBLISH, so a consumer of the queue reads the acknowledgment
\* first.
C11_AckBeforeFanout ==
    [][\A s \in Sockets, p \in PublishPackets :
          ( /\ get_client_id(s) # {}
            /\ p.qos_level # "AtMostOnce"
            /\ process_message(s, p) )
          => /\ \E i \in 1..Len(Enqueued) : \E j \in 1..Len(Enqueued) :
                   /\ i < j
                   /\ Enqueued[i].packet.packet_type \in {"PUBACK", "PUBREC"}
                   /\ Enqueued[i].sockets = <<s>>
                   /\ Enqueued[j].packet = p
             /\ \A i \in 1..Len(Enqueued) : \A j \in 1..Len(Enqueued) :
                   ( /\ Enqueued[i].packet.packet_type \in {"PUBACK", "PUBREC"}
                     /\ Enqueued[j].packet.packet_type = "PUBLISH" )
                   => i < j]_vars

\* C11's case: the queue holds the PUBREC of a QoS 2 PUBLISH at its head and
\* the fan-out to a subscriber behind it.
C11_Witness ==
    /\ handled.packet.packet_type = "PUBLISH"
    /\ handled.packet.qos_level = "ExactlyOnce"
    /\ broker2listener = handled.sent
    /\ Len(broker2listener) = 2
    /\ Head(broker2listener).packet.packet_type = "PUBREC"
    /\ broker2listener[2].packet = handled.packet
    /\ broker2listener[2].sockets # << >>

\* The packets whose handlers look the sender's client id up first.
C12_Packets ==
    PublishPackets \cup PubrecPackets \cup PubrelPackets \cup SubscribePackets
    \cup UnsubscribePackets \cup PingreqPackets \cup DisconnectPackets

\* C12: a PUBLISH, PUBREC, PUBREL, SUBSCRIBE, UNSUBSCRIBE, PINGREQ or
\* DISCONNECT from a socket with no registered client id makes the handler
\* return an error: nothing is placed on the dispatcher-to-Tx queue and the
\* client, topic and session registries are left unchanged.
C12_UnregisteredDropped ==
    [][\A s \in Sockets, p \in C12_Packets :
          (get_client_id(s) = {} /\ process_message(s, p))
          => /\ handled'.result = "Err"
             /\ broker2listener' = broker2listener
             /\ socket2id' = socket2id
             /\ id2socket' = id2socket
             /\ topic2subscribers' = topic2subscribers
             /\ id2session' = id2session]_vars

\* C12's case: a PUBREC from a socket without a client id has been dropped
\* while another socket is registered and subscribed.
C12_Witness ==
    /\ handled.result = "Err"
    /\ handled.packet.packet_type = "PUBREC"
    /\ get_client_id(handled.socket) = {}
    /\ DOMAIN socket2id # {}
    /\ \E topic \in Topics : find_subscribers(topic) # << >>
    /\ broker2listener = << >>

\* C13: handling a PUBREC with packet identifier p from a registered socket
\* emits exactly one PUBREL with identifier p, addressed to that socket.
C13_OnePubrel ==
    [][\A s \in Sockets, p \in PubrecPackets :
          (get_client_id(s) # {} /\ process_message(s, p))
          => LET pubrels == SelectSeq(Enqueued,
                                LAMBDA m : m.packet.packet_type = "PUBREL")
             IN  /\ Len(pubrels) = 1
                 /\ pubrels[1].sockets = <<s>>
                 /\ pubrels[1].packet.packet_identifier = p.packet_identifier]_vars

\* C14: handling a PUBREL with packet identifier p from a registered socket
\* emits exactly one PUBCOMP with identifier p, addressed to that socket.
C14_OnePubcomp ==
    [][\A s \in Sockets, p \in PubrelPackets :
          (get_client_id(s) # {} /\ process_message(s, p))
          => /\ Len(Enqueued) = 1
             /\ Enqueued[1].sockets = <<s>>
             /\ Enqueued[1].packet.packet_type = "PUBCOMP"
             /\ Enqueued[1].packet.packet_identifier = p.packet_identifier]_vars

\* C14's case: the PUBCOMP for a registered socket's PUBREL is on the queue.
C14_Witness ==
    /\ handled.packet.packet_type = "PUBREL"
    /\ handled.result = "Ok"
    /\ get_client_id(handled.socket) # {}
    /\ broker2listener = handled.sent
    /\ Len(broker2listener) = 1
    /\ Head(broker2listener).packet.packet_type = "PUBCOMP"

\* C15: after register_puback, register_pubrec or register_pubrel is called
\* for client c with a packet whose identifier is p, the matching query
\* is_puback_complete, is_pubrec_complete or is_pubrel_complete for (c, p)
\* returns true; in a session no such call was made on it returns false.
C15_AckMarked ==
    /\ call.op = "register_puback" =>
           is_puback_complete(id2session[call.client_id], call.client_id,
                              handled.packet)
    /\ call.op = "register_pubrec" =>
           is_pubrec_complete(id2session[call.client_id], call.client_id,
                              handled.packet)
    /\ call.op = "register_pubrel" =>
           is_pubrel_complete(id2session[call.client_id], call.client_id,
                              handled.packet)
    /\ \A c \in DOMAIN id2session, p \in SessionAckPackets :
           id2session[c] = SessionHandler_new =>
               /\ ~is_puback_complete(id2session[c], c, p)
               /\ ~is_pubrec_complete(id2session[c], c, p)
               /\ ~is_pubrel_complete(id2session[c], c, p)

\* The QoS 0 log a session holds for a client, empty where it has none.
C16_Log(session, client_id) ==
    IF client_id \in DOMAIN session.client2pub_qos0_packets
    THEN session.client2pub_qos0_packets[client_id] ELSE << >>

C17_Subscribed ==
    [][(handled'.packet.packet_type = "SUBSCRIBE" /\ handled'.result = "Ok")
          => LET s == handled'.socket
                 p == handled'.packet
             IN  /\ \A i \in 1..Len(p.topic_filters) :
                       /\ p.topic_filters[i].topic_filter
                              \in DOMAIN topic2subscribers'
                       /\ the(get_client_id(s)) \in
                              Members(topic2subscribers'[
                                          p.topic_filters[i].topic_filter])
                 /\ Len(Enqueued) = 1
                 /\ Enqueued[1].sockets = <<s>>
                 /\ Enqueued[1].packet.packet_type = "SUBACK"
                 /\ Enqueued[1].packet.packet_identifier = p.packet_identifier
                 /\ Len(Enqueued[1].packet.reason_codes) = Len(p.topic_filters)
                 /\ \A i \in 1..Len(p.topic_filters) :
                       Enqueued[1].packet.reason_codes[i] = "GrantedQoS0"]_vars

\* C17's case: a SUBSCRIBE listing two different filters, one of them with
\* maximum QoS 2, has been handled.
C17_Witness ==
    /\ handled.packet.packet_type = "SUBSCRIBE"
    /\ handled.result = "Ok"
    /\ Len(handled.packet.topic_filters) = 2
    /\ handled.packet.topic_filters[1].topic_filter
           # handled.packet.topic_filters[2].topic_filter
    /\ handled.packet.topic_filters[2].maximum_qos = "ExactlyOnce"
    /\ \A topic \in DispatcherTopics :
           handled.client_id \subseteq Members(find_subscribers(topic))
    /\ Len(handled.sent) = 1
    /\ Len(handled.sent[1].packet.reason_codes) = 2

\* C18: handling a DISCONNECT from a socket registered as client c removes the
\* pair, so that afterwards get_client_id(socket) and get_socket(c) both
\* fail, and puts exactly one DISCONNECT(NormalDisconnection) on the queue,
\* addressed to that socket.
C18_DisconnectUnregisters ==
    [][(handled'.packet.packet_type = "DISCONNECT" /\ handled'.result = "Ok")
          => LET s == handled'.socket
                 c == the(get_client_id(s))
             IN  /\ handled'.client_id = get_client_id(s)
                 /\ Lookup(socket2id', s) = {}
                 /\ Lookup(id2socket', c) = {}
                 /\ Enqueued = <<send_packet(s,
                                     disconnect("NormalDisconnection"))>>]_vars

\* C18's case: a DISCONNECT from a registered socket has been handled while
\* another client stayed registered.
C18_Witness ==
    /\ handled.packet.packet_type = "DISCONNECT"
    /\ handled.result = "Ok"
    /\ handled.client_id # {}
    /\ get_client_id(handled.socket) = {}
    /\ DOMAIN socket2id # {}

\* C19: when the topic actor handles Subscribe for a client and a filter right
\* after handling the same Subscribe, find_subscribers for that filter gives
\* what it gave after the first one: the client is a member once.
C19_SubscribeIdempotent ==
    [][(call'.op = "Subscribe" /\ call'.repeated)
          => /\ handle_topics_FindSubscribers(topic2subscribers',
                                              call'.topic_filter)
                = handle_topics_FindSubscribers(topic2subscribers,
                                                call'.topic_filter)
             /\ \A v \in handle_topics_FindSubscribers(topic2subscribers',
                                                       call'.topic_filter) :
                   Cardinality({i \in DOMAIN v : v[i] = call'.client_id}) = 1]_vars

\* C19's case: the same Subscribe has been handled twice in a row for a filter
\* that has another subscriber too.
C19_Witness ==
    /\ call.op = "Subscribe"
    /\ call.repeated
    /\ Cardinality(topic2subscribers[call.topic_filter]) = 2

\* C20: in the DashMap-backed topic registry no subscriber list holds the same
\* client id twice: find_subscribers returns each client id at most once.
C20_NoDuplicateSubscribers ==
    \A f \in RegistryTopics :
        \A i, j \in DOMAIN find_subscribers(f) :
            find_subscribers(f)[i] = find_subscribers(f)[j] => i = j

\* ------------------------------------------------------------ claims C21-C30
\* the client ids FindSubscribers can return for a filter
C21_Found(subscribers, topic_filter) ==
    UNION {Members(v) : v \in handle_topics_FindSubscribers(subscribers,
                                                            topic_filter)}

\* C21: once the topic actor has handled UnsubscribeAll for client c,
\* find_subscribers returns c for no topic filter, and that stays so through
\* every later command that is not a Subscribe of c.
C21_UnsubscribedEverywhere ==
    [][/\ call'.op = "UnsubscribeAll"
          => \A f \in ActorTopics :
                call'.client_id \notin C21_Found(topic2subscribers', f)
       /\ \A c \in ClientIds :
             ((\A f \in ActorTopics : c \notin C21_Found(topic2subscribers, f))
                 /\ ~(call'.op = "Subscribe" /\ call'.client_id = c))
             => \A f \in ActorTopics :
                   c \notin C21_Found(topic2subscribers', f)]_vars

\* C21's case: UnsubscribeAll has been handled for a client that was a
\* subscriber of both filters, one of which has another subscriber.
C21_Witness ==
    /\ call.op = "UnsubscribeAll"
    /\ call.member_of = ActorTopics
    /\ \E f \in ActorTopics : topic2subscribers[f] # {}

\* the list a registry content holds for a filter, empty when it has no entry
C22_List(content, topic_filter) ==
    IF topic_filter \in DOMAIN content THEN content[topic_filter] ELSE << >>

\* C22: a find_subscribers(t) that runs while a remove_all_subscriptions(c)
\* call is in progress returns the whole list t had when that call began, or
\* that list with every c taken out, and nothing else.
C22_NeverTorn ==
    [][\A u \in Tasks :
          (/\ call'.op = "find_subscribers"
           /\ call' # call
           /\ task[u].pc = "remove_all_subscriptions_alter_all")
          => LET pre == C22_List(task[u].before, call'.topic_filter)
                 post == SelectSeq(pre, LAMBDA s : s # task[u].client_id)
             IN  call'.ret \in {pre, post}]_vars

\* C22's case: while remove_all_subscriptions(c) still has a shard to visit,
\* find_subscribers has returned the list of an already visited filter, which
\* held c before the call and another client too.
C22_Witness ==
    \E u \in Tasks :
        /\ task[u].pc = "remove_all_subscriptions_alter_all"
        /\ call.op = "find_subscribers"
        /\ call.topic_filter \notin task[u].shards
        /\ call.ret # << >>
        /\ call.ret # C22_List(task[u].before, call.topic_filter)

\* C23: handling an inbound CONNACK, PUBACK, PUBCOMP, SUBACK, UNSUBACK,
\* PINGRESP, AUTH or RESERVED packet returns Ok, puts nothing on the
\* dispatcher-to-Tx queue and leaves the client, topic and session registries
\* as they were.
C23_NoOp ==
    [][handled'.packet.packet_type \in NoHandlerTypes
          => /\ handled'.result = "Ok"
             /\ broker2listener' = broker2listener
             /\ UNCHANGED <<socket2id, id2socket, topic2subscribers, id2session>>]_vars

\* C23's case: a PUBACK from a registered, subscribed client has been handled.
C23_Witness ==
    /\ handled.packet.packet_type = "PUBACK"
    /\ handled.client_id # {}
    /\ \E f \in Topics : handled.client_id \subseteq Members(find_subscribers(f))

\* a step of the Tx stage: the only one that takes a message off the queue
C27_TxStep == Len(broker2listener') < Len(broker2listener)

\* C27: when the Tx stage handles an outbound DISCONNECT, every socket whose
\* write half it shuts down has been written the DISCONNECT first.
C27_DisconnectWrittenBeforeShutdown ==
    [][(C27_TxStep /\ is_disconnection(call'.packet))
          => \A i \in DOMAIN call'.events :
                call'.events[i].event = "shutdown"
                => \E j \in 1..(i - 1) :
                      /\ call'.events[j].socket = call'.events[i].socket
                      /\ call'.events[j].event = "write"]_vars

C29_FailurePosted ==
    [][C27_TxStep
          => LET failed == {call'.events[i].socket :
                               i \in {j \in DOMAIN call'.events :
                                          call'.events[j].event = "write_failed"}}
                 posted == {call'.listener2broker[i] :
                               i \in DOMAIN call'.listener2broker}
             IN  posted = {<<s, disconnect("UnspecifiedError")>> : s \in failed}]_vars

\* C30: in a fan-out, every recipient the stream map holds and whose own
\* write does not fail is written the packet, whatever happens to the others.
C30_FanoutGoesOn ==
    [][(C27_TxStep /\ ~is_disconnection(call'.packet))
          => \A i \in DOMAIN call'.sockets :
                call'.sockets[i] \in stream_repository
                => \E j \in DOMAIN call'.events :
                      /\ call'.events[j].socket = call'.sockets[i]
                      /\ call'.events[j].event \in {"write", "write_failed"}]_vars

\* C30's case: a packet for two recipients has been handled, the write to the
\* first failed and the second was written.
C30_Witness ==
    /\ call.op = "handle_outgoing_connections"
    /\ Len(call.sockets) = 2
    /\ Len(call.events) = 2
    /\ call.events[1].event = "write_failed"
    /\ call.events[2].event = "write"
    /\ call.events[1].socket # call.events[2].socket

\* the number of bytes the encoding of a variable byte integer is to have
C24_Length(n) ==
    IF n < 128 THEN 1 ELSE IF n < 16384 THEN 2 ELSE IF n < 2097152 THEN 3 ELSE 4

\* C24: for n in [0, 2^28 - 1] the bytes write_variable_byte_integer(n)
\* writes are 1, 2, 3 or 4 as n is below 128, 16384, 2097152 or not, and
\* read_variable_byte_integer reads n back from them.
C24_VariableByteIntegerRoundTrip ==
    /\ call.op \in {"write_variable_byte_integer", "read_variable_byte_integer"}
          => /\ call.input \in 0..(2 ^ 28 - 1)
             /\ Len(call.buffer) = C24_Length(call.input)
    /\ call.op = "read_variable_byte_integer" => call.ret = {call.input}

\* C24's case: the largest value, 2^28 - 1, has been written on four bytes and
\* read back.
C24_Witness ==
    /\ call.op = "read_variable_byte_integer"
    /\ call.input = 2 ^ 28 - 1
    /\ Len(call.buffer) = 4
    /\ call.ret = {call.input}

\* C25: the first byte FixedHeaderEncoder writes for a PUBLISH header has dup
\* in bit 3, the QoS in bits 2-1 and retain in bit 0, and decoding the
\* encoded header gives the same (dup_flag, qos_level, retain).
C25_PublishFlagsRoundTrip ==
    (call.op \in {"FixedHeaderEncoder::encode", "FixedHeaderDecoder::decode"}
        /\ call.input.fixed_header.packet_type = "PUBLISH")
    => LET fixed_header == call.input.fixed_header
           first_byte == call.buffer[1]
       IN  /\ (Bit(first_byte, 3) = 1) = fixed_header.dup_flag
           /\ QoSLevel_from_u8(2 * Bit(first_byte, 2) + Bit(first_byte, 1))
                  = {fixed_header.qos_level}
           /\ (Bit(first_byte, 0) = 1) = fixed_header.retain
           /\ call.op = "FixedHeaderDecoder::decode"
                 => \E decoded \in call.ret :
                       /\ decoded.dup_flag = fixed_header.dup_flag
                       /\ decoded.qos_level = fixed_header.qos_level
                       /\ decoded.retain = fixed_header.retain

\* C26: the bytes encode_packet produces for ControlPacket::disconnect(reason)
\* are the fixed header of a DISCONNECT with remaining length 2, then the
\* byte reason.as_u8(), then a property block of length zero.
C26_DisconnectBytes ==
    (call.op = "encode_packet" /\ call.input.packet_type = "DISCONNECT")
    => call.buffer = <<ControlPacketType_as_u8("DISCONNECT"), 2,
                       ReasonCode_as_u8(call.input.reason_code), 0>>

\* ------------------------------------------------------------ claims C31-C39

\* C31: the read loop of a connection stops when, and only when, a decode
\* attempt fails with cause ConnectionError; after any other decode error
\* nothing is sent for the attempt and the loop goes on to the next decode
\* attempt on the same connection.
C31_ReadLoopStops ==
    [][\A s \in Sockets :
          /\ (rx[s] = "decode" /\ rx'[s] # "decode")
             => /\ call'.op = "handle_client"
                /\ call'.socket = s
                /\ \A r \in call'.ret : ~r.ok /\ r.cause = "ConnectionError"
          /\ \A o \in StreamOutcomes(RxPackets) :
                 handle_client(s, o)
                 => LET r == decode_packet(o)
                    IN  /\ (~r.ok /\ r.cause = "ConnectionError")
                           => rx'[s] = "exit"
                        /\ (~r.ok /\ r.cause # "ConnectionError")
                           => /\ rx'[s] = "decode"
                              /\ listener2broker' = listener2broker
                        /\ r.ok => rx'[s] = "decode"]_vars

\* C31's case: a decode attempt on one connection has failed on bytes that are
\* no packet and its loop goes on, and the loop of the other has ended.
C31_Witness ==
    /\ call.op = "handle_client"
    /\ \E r \in call.ret : ~r.ok /\ r.cause = "InvalidData"
    /\ rx[call.socket] = "decode"
    /\ \E s \in Sockets : rx[s] = "exit"

\* C33: after a session takeover (client id C moves from socket S1 to socket
\* S2) and the Tx cleanup of S1 that the DISCONNECT(SessionTakenOver) sets
\* off, C is still registered to S2: get_socket(C) returns S2 and
\* get_client_id(S2) returns C.
C33_TakeoverSurvivesCleanup ==
    [][\A s1 \in Sockets, s2 \in Sockets, c \in ClientIds :
          ( /\ s1 # s2
            /\ C27_TxStep
            /\ Head(broker2listener) =
                   send_packet(s1, disconnect("SessionTakenOver"))
            /\ get_client_id(s1) = {c}
            /\ get_socket(c) = {s2}
            /\ get_client_id(s2) = {c} )
          => /\ Lookup(id2socket', c) = {s2}
             /\ Lookup(socket2id', s2) = {c}]_vars

\* C34: a DISCONNECT(SessionTakenOver) is never addressed to the socket that
\* sent the CONNECT being handled; a second CONNECT with the same client id
\* on the same, already registered socket does not disconnect that socket.
C34_NoSelfTakeover ==
    handled.packet.packet_type = "CONNECT"
    => \A i \in DOMAIN handled.sent :
           handled.sent[i].packet.packet_type = "DISCONNECT"
           => handled.sent[i].sockets # <<handled.socket>>

\* C35: after a client's DISCONNECT has been handled by the DisconnectHandler
\* and the Tx stage has cleaned up for the outbound DISCONNECT that resulted,
\* the client id is in no topic's subscriber set.
C35_DisconnectedUnsubscribed ==
    [][( /\ handled.packet.packet_type = "DISCONNECT"
         /\ handled.result = "Ok"
         /\ broker2listener = handled.sent
         /\ C27_TxStep )
       => \A f \in DOMAIN topic2subscribers' :
              \A c \in handled.client_id :
                  c \notin Members(topic2subscribers'[f])]_vars

\* C38: when a peer closes its connection without sending DISCONNECT, the end
\* of the read loop is eventually followed by the removal of the socket's
\* write half from the stream map and of its client registration; no entry of
\* a closed connection stays in those maps forever.
C38_ClosedEventuallyCleaned ==
    \A s \in Sockets :
        (rx[s] = "exit")
        ~> (s \notin stream_repository /\ s \notin DOMAIN socket2id)

\* C37: two messages put on the dispatcher-to-Tx queue for the same socket are
\* acted on in the order they were enqueued: the Tx stage never acts on a
\* message for a socket while an earlier message for that socket is still to
\* be written, and a later DISCONNECT never shuts the socket down first.
C37_TxInOrder ==
    call.op = "TxTask" => call.pending = {}


\* C32: a SUBSCRIBE whose task runs while its socket is bound to no client
\* fails as client-not-registered: the handler returns Err, sends no SUBACK
\* and changes no map, also when the task of a CONNECT that the same socket
\* sent earlier has not yet registered the client.
C32_UnregisteredSubscribeFails ==
    [][\A t \in Tasks :
          (/\ task[t].pc = "process_message"
           /\ task[t].packet.packet_type = "SUBSCRIBE"
           /\ get_client_id(task[t].socket) = {}
           /\ task'[t].pc = "idle")
          => /\ handled'.result = "Err"
             /\ handled'.sent = << >>
             /\ UNCHANGED <<socket2id, id2socket, id2session,
                            topic2subscribers, broker2listener>>]_vars

\* The interleaving: the task of a SUBSCRIBE has ended in Err with nothing
\* sent while the task of a CONNECT from the same socket, spawned before it,
\* has not started.
C32_Witness ==
    \E t \in Tasks, u \in Tasks :
        /\ task[t].pc = "idle"
        /\ task[t].op = "process_message"
        /\ task[t].packet.packet_type = "SUBSCRIBE"
        /\ handled.socket = task[t].socket
        /\ handled.packet = task[t].packet
        /\ handled.result = "Err"
        /\ handled.sent = << >>
        /\ u \in task[t].earlier
        /\ task[u].pc = "process_message"
        /\ task[u].packet.packet_type = "CONNECT"
        /\ task[u].socket = task[t].socket
        /\ get_client_id(task[t].socket) = {}

\* C36: the unwrap of persist_packets never panics: no PUBLISH is handled
\* with a subscriber that has no session, in any interleaving of the tasks.
C36_PersistNeverPanics ==
    handled.packet.packet_type = "PUBLISH" => handled.result # "Panic"

\* C39: register_session never replaces an existing session: while the task
\* of another CONNECT with clean_start = false for the same client id is
\* under way, the insert of a CONNECT's task finds no session under the
\* client id and leaves every session that exists as it is.
C39_SessionNeverReplaced ==
    [][\A t \in Tasks, u \in Tasks :
          (/\ t # u
           /\ task[t].pc = "insert"
           /\ task'[t].pc = "connack"
           /\ task[u].pc \in {"contains_key", "insert", "connack"}
           /\ ~task[u].packet.clean_start_flag
           /\ task[u].client_id = task[t].client_id)
          => /\ task[t].client_id \notin DOMAIN id2session
             /\ \A c \in DOMAIN id2session :
                    Lookup(id2session', c) = {id2session[c]}]_vars

====
